---- MODULE Spec2Model ----
(***************************************************************************)
(* Scenic quality model (natcap.invest.scenic_quality.scenic_quality):     *)
(* execute() builds a task graph of derived-file computations and joins    *)
(* it.  The task bodies, the dependency lists, the target paths and the    *)
(* joins are those of execute(); the scheduler (taskgraph) is an imported  *)
(* package and follows the design document, section 4.1.                   *)
(***************************************************************************)
EXTENDS Integers, Sequences, FiniteSets, TLC

VARIABLES
    args_n_workers,       \* args['n_workers'], or how it is absent
    valuation_function,   \* args['valuation_function']
    structures,           \* features of the structures vector, in file order
    pc,                   \* position of execute()
    viewpoints,           \* sorted viewpoint tuples of the loop at line 238
    feature_index,        \* loop counter of the loop at line 238
    status,               \* task -> scheduling state, for the tasks added
    files,                \* paths that exist in the workspace
    created,              \* paths written during the current call
    tokens,               \* completion tokens in the token store
    last,                 \* how the previous call of execute() ended
    baseline,             \* tasks planned before the structures were repacked
    raster_size,          \* (columns, rows) of the rasters of the workspace
    blocksize,            \* (columns, rows) of one block of iterblocks
    rasters,              \* raster path -> its band, pixel -> value
    valuation_args,       \* a_coef, b_coef and max_valuation_radius of args
    iterators,            \* sorted runs saved by _calculate_visual_quality
    percentile_values     \* breakpoints found by _calculate_visual_quality

vars == <<args_n_workers, valuation_function, structures, pc, viewpoints,
          feature_index, status, files, created, tokens, last, baseline,
          raster_size, blocksize, rasters, valuation_args, iterators,
          percentile_values>>

inputs == <<args_n_workers, valuation_function, structures>>
workspace == <<files, created, tokens, last, baseline>>
rastervars == <<raster_size, blocksize, rasters, valuation_args, iterators,
                percentile_values>>

\* The scheduling of execute() does not depend on what the rasters hold.
NoRasters ==
    /\ raster_size = <<0, 0>>
    /\ blocksize = <<0, 0>>
    /\ rasters = <<>>
    /\ valuation_args = <<>>
    /\ iterators = <<>>
    /\ percentile_values = <<>>

(***************************************************************************)
(* Bounds of the model.                                                    *)
(***************************************************************************)
MaxWorkers == 2
MaxFeatures == 2
MaxCoord == 2
MaxWeight == 2

(***************************************************************************)
(* Inputs.                                                                 *)
(***************************************************************************)
\* A point feature of the structures vector: its location in the DEM's
\* projection and the optional fields WEIGHT, RADIUS (or RADIUS2), HEIGHT.
\* A field that is present holds one value, <<v>>.
Absent == <<>>
None == <<>>
Feature(loc, weight, radius, height) ==
    [loc |-> loc, WEIGHT |-> weight, RADIUS |-> radius, HEIGHT |-> height]

\* The terrain raster args['dem_path']: bounding box, geotransform (pixels
\* of one ground unit, origin at the upper left corner) and no-data pixels.
DemBoundingBox == [minx |-> 1, miny |-> -1, maxx |-> MaxCoord + 1, maxy |-> 1]
DemGeoTransform ==
    <<DemBoundingBox.minx, 1, 0, DemBoundingBox.maxy, 0, -1>>
DemNodataPixels == {<<1, 0>>}

\* The area of interest args['aoi_path'], a rectangle.
AoiBoundingBox == [minx |-> 2, miny |-> -1, maxx |-> MaxCoord + 1, maxy |-> 1]

\* args['n_workers']: not present, an empty string, None, or an integer.
NWorkersArgs ==
    {<<"missing">>, <<"str", "">>, <<"None">>}
    \cup {<<"int", n>> : n \in 0..MaxWorkers}

ValuationFunctions ==
    {"linear: a + bx", "polynomial"}

\* Structures on the row y = 0 without optional fields, west to east.
RowFeature(x) == Feature(<<x, 0>>, Absent, Absent, Absent)

RECURSIVE AscendingRow(_, _)
AscendingRow(xs, from) ==
    IF from > MaxCoord THEN <<>>
    ELSE IF from \in xs
         THEN <<RowFeature(from)>> \o AscendingRow(xs, from + 1)
         ELSE AscendingRow(xs, from + 1)

\* At most MaxFeatures neighbouring structures.
RowInputs ==
    {AscendingRow(a..b, 0) :
        <<a, b>> \in {ab \in (0..MaxCoord) \X (-1..MaxCoord) :
                        ab[2] - ab[1] < MaxFeatures}}

(***************************************************************************)
(* execute(): configuration, lines 81-128.                                 *)
(***************************************************************************)
StartsWith(s, prefix) ==
    /\ Len(s) >= Len(prefix)
    /\ SubSeq(s, 1, Len(prefix)) = prefix

\* Lines 87-102: the valuation method, or the ValueError of line 101.
ValuationMethodDefaulting(f) ==
    IF StartsWith(f, "linear") THEN "linear"
    ELSE IF StartsWith(f, "logarithmic") THEN "logarithmic"
    ELSE "exponential"

ValuationMethod(f) ==
    IF StartsWith(f, "linear") THEN "linear"
    ELSE IF StartsWith(f, "logarithmic") THEN "logarithmic"
    ELSE IF StartsWith(f, "exponential") THEN "exponential"
    ELSE "ValueError"

\* Lines 121-127: int(args['n_workers']), 0 on KeyError, ValueError and
\* TypeError.
NWorkersCpuCount(a) ==
    IF a[1] = "missing" THEN MaxWorkers
    ELSE IF a[1] = "str" /\ a[2] = "" THEN MaxWorkers
    ELSE IF a[1] = "None" THEN MaxWorkers
    ELSE a[2]

NWorkers(a) ==
    IF a[1] = "missing" THEN 0
    ELSE IF a[1] = "str" /\ a[2] = "" THEN 0
    ELSE IF a[1] = "None" THEN 0
    ELSE a[2]

n_workers == NWorkers(args_n_workers)

\* Line 120: the token store lives in the workspace.
work_token_dir == <<"intermediate", "_tmp_work_tokens">>

\* Lines 29-44 and 113-116: the file registry; a pattern is formatted with
\* the feature index.
file_registry(key) ==
    CASE key = "viewshed_value" -> <<"output", "vshed_value.tif">>
      [] key = "n_visible_structures" -> <<"output", "vshed.tif">>
      [] key = "viewshed_quality" -> <<"output", "vshed_qual.tif">>
      [] key = "aligned_dem_path" -> <<"intermediate", "aligned_dem.tif">>
      [] key = "aoi_reprojected" -> <<"intermediate", "aoi_reprojected.shp">>
      [] key = "clipped_dem" -> <<"intermediate", "dem_clipped.tif">>
      [] key = "structures_clipped" ->
            <<"intermediate", "structures_clipped.shp">>
      [] key = "structures_reprojected" ->
            <<"intermediate", "structures_reprojected.shp">>
      [] key = "visibility_pattern" -> <<"intermediate", "visibility_{id}.tif">>
      [] key = "auxilliary_pattern" -> <<"intermediate", "auxilliary_{id}.tif">>
      [] key = "value_pattern" -> <<"intermediate", "value_{id}.tif">>

Format(pattern, id) == Append(pattern, id)

(***************************************************************************)
(* execute(): the viewpoints, lines 174-239.                               *)
(***************************************************************************)
\* Lines 540-547.
_viewpoint_within_raster(viewpoint) ==
    ~ (\/ ~ (DemBoundingBox.minx <= viewpoint[1]
                /\ viewpoint[1] <= DemBoundingBox.maxx)
       \/ ~ (DemBoundingBox.miny <= viewpoint[2]
                /\ viewpoint[2] <= DemBoundingBox.maxy))

\* int(n / d) of Python for integers: the quotient truncated towards zero.
TruncDiv(n, d) ==
    LET q == (IF n < 0 THEN -n ELSE n) \div (IF d < 0 THEN -d ELSE d)
    IN  IF (n < 0) = (d < 0) THEN q ELSE -q

\* Lines 572-573: the pixel under a viewpoint.
PixelUnder(viewpoint) ==
    <<TruncDiv(viewpoint[1] - DemGeoTransform[1], DemGeoTransform[2]),
      TruncDiv(viewpoint[2] - DemGeoTransform[4], DemGeoTransform[6])>>

\* Lines 564-580.
_viewpoint_over_nodata(viewpoint) ==
    PixelUnder(viewpoint) \in DemNodataPixels

Fabs(v) == IF v < 0 THEN -v ELSE v

\* Lines 204-226: the tuple appended for one feature.
ViewpointTuple(point) ==
    [viewpoint |-> point.loc,
     max_radius |-> IF point.RADIUS = Absent THEN None
                    ELSE <<Fabs(point.RADIUS[1])>>,
     weight |-> IF point.WEIGHT = Absent THEN 1 ELSE point.WEIGHT[1],
     viewpoint_height |-> IF point.HEIGHT = Absent THEN 0
                          ELSE Fabs(point.HEIGHT[1])]

\* Lines 183-226: the features kept, in file order.
RECURSIVE ViewpointTuples(_)
ViewpointTuples(layer) ==
    IF layer = <<>> THEN <<>>
    ELSE LET point == Head(layer)
             rest == ViewpointTuples(Tail(layer))
         IN  IF ~ _viewpoint_within_raster(point.loc) THEN rest
             ELSE IF _viewpoint_over_nodata(point.loc) THEN rest
             ELSE <<ViewpointTuple(point)>> \o rest

\* Tuple comparison of two (x, y) locations.
LocLess(a, b) == a[1] < b[1] \/ (a[1] = b[1] /\ a[2] < b[2])

\* Lines 238-239: sorted(viewpoint_tuples, key=lambda x: x[0]), a stable
\* sort: tuples of equal location keep their order.
RECURSIVE InsertByLocation(_, _)
InsertByLocation(sorted, t) ==
    IF sorted = <<>> THEN <<t>>
    ELSE IF LocLess(t.viewpoint, Head(sorted).viewpoint)
         THEN <<t>> \o sorted
         ELSE <<Head(sorted)>> \o InsertByLocation(Tail(sorted), t)

RECURSIVE SortedByLocation(_)
SortedByLocation(tuples) ==
    IF tuples = <<>> THEN <<>>
    ELSE InsertByLocation(SortedByLocation(SubSeq(tuples, 1, Len(tuples) - 1)),
                          tuples[Len(tuples)])

\* Line 175 opens file_registry['structures_reprojected']: every feature of
\* the input, reprojected, whether or not it lies in the area of interest.
StructuresReprojected == structures

InAoi(loc) ==
    /\ AoiBoundingBox.minx <= loc[1] /\ loc[1] <= AoiBoundingBox.maxx
    /\ AoiBoundingBox.miny <= loc[2] /\ loc[2] <= AoiBoundingBox.maxy

\* Line 352: input_layer.Clip(binding_layer, out_layer).
RECURSIVE Clip(_)
Clip(layer) ==
    IF layer = <<>> THEN <<>>
    ELSE IF InAoi(Head(layer).loc) THEN <<Head(layer)>> \o Clip(Tail(layer))
         ELSE Clip(Tail(layer))

\* Lines 356-360: _clip_vector raises when the intersection is empty.
ClipVectorNeverRaises(layer) == FALSE

ClipVectorRaises(layer) == Len(Clip(layer)) = 0

(***************************************************************************)
(* execute(): the tasks it adds, lines 130-310.  A task is named by its    *)
(* task_name; the per-viewpoint tasks carry the feature index.             *)
(***************************************************************************)
reprojected_aoi_task == <<"reproject_aoi_to_dem">>
reprojected_viewpoints_task == <<"reproject_structures_to_dem">>
clipped_viewpoints_task == <<"clip_reprojected_structures_to_aoi">>
clipped_dem_task == <<"clip_dem_to_aoi">>
viewshed_task(i) == <<"calculate_visibility", i>>
valuation_task(i) == <<"calculate_valuation_for_viewshed", i>>
viewshed_value_task == <<"add_up_valuation_rasters">>
count_visible_task == <<"sum_visibility_for_all_structures">>
visual_quality_task == <<"calculate_visual_quality">>

IsViewshed(t) == t[1] = "calculate_visibility"
IsValuation(t) == t[1] = "calculate_valuation_for_viewshed"

FeatureIndexes == 0 .. (Len(viewpoints) - 1)

viewshed_tasks == {viewshed_task(i) : i \in FeatureIndexes}
valuation_tasks == {valuation_task(i) : i \in FeatureIndexes}

\* Lines 241-245 and 263-264.
visibility_filepath(i) == Format(file_registry("visibility_pattern"), i)
auxilliary_filepath(i) == Format(file_registry("auxilliary_pattern"), i)
viewshed_valuation_path(i) == Format(file_registry("value_pattern"), i)

\* target_path_list of every add_task call.
TargetPathListOneOutput(t) ==
    CASE t = reprojected_aoi_task -> {file_registry("aoi_reprojected")}
      [] t = reprojected_viewpoints_task ->
            {file_registry("structures_reprojected")}
      [] t = clipped_viewpoints_task -> {file_registry("structures_clipped")}
      [] t = clipped_dem_task -> {file_registry("clipped_dem")}
      [] IsViewshed(t) ->
            {auxilliary_filepath(t[2]), visibility_filepath(t[2])}
      [] IsValuation(t) -> {viewshed_valuation_path(t[2])}
      [] t = viewshed_value_task -> {file_registry("viewshed_value")}
      [] t = count_visible_task -> {file_registry("viewshed_value")}
      [] t = visual_quality_task -> {file_registry("viewshed_quality")}

TargetPathListAlignedDem(t) ==
    CASE t = reprojected_aoi_task -> {file_registry("aoi_reprojected")}
      [] t = reprojected_viewpoints_task ->
            {file_registry("structures_reprojected")}
      [] t = clipped_viewpoints_task -> {file_registry("structures_clipped")}
      [] t = clipped_dem_task -> {file_registry("aligned_dem_path")}
      [] IsViewshed(t) ->
            {auxilliary_filepath(t[2]), visibility_filepath(t[2])}
      [] IsValuation(t) -> {viewshed_valuation_path(t[2])}
      [] t = viewshed_value_task -> {file_registry("viewshed_value")}
      [] t = count_visible_task -> {file_registry("n_visible_structures")}
      [] t = visual_quality_task -> {file_registry("viewshed_quality")}

TargetPathList(t) ==
    CASE t = reprojected_aoi_task -> {file_registry("aoi_reprojected")}
      [] t = reprojected_viewpoints_task ->
            {file_registry("structures_reprojected")}
      [] t = clipped_viewpoints_task -> {file_registry("structures_clipped")}
      [] t = clipped_dem_task -> {file_registry("clipped_dem")}
      [] IsViewshed(t) ->
            {auxilliary_filepath(t[2]), visibility_filepath(t[2])}
      [] IsValuation(t) -> {viewshed_valuation_path(t[2])}
      [] t = viewshed_value_task -> {file_registry("viewshed_value")}
      [] t = count_visible_task -> {file_registry("n_visible_structures")}
      [] t = visual_quality_task -> {file_registry("viewshed_quality")}

\* The files a task body writes: the output paths among its arguments.
BodyOutputsCountIntoValue(t) ==
    CASE t = reprojected_aoi_task -> {file_registry("aoi_reprojected")}
      [] t = reprojected_viewpoints_task ->
            {file_registry("structures_reprojected")}
      [] t = clipped_viewpoints_task -> {file_registry("structures_clipped")}
      [] t = clipped_dem_task -> {file_registry("clipped_dem")}
      [] IsViewshed(t) ->
            {auxilliary_filepath(t[2]), visibility_filepath(t[2])}
      [] IsValuation(t) -> {viewshed_valuation_path(t[2])}
      [] t = viewshed_value_task -> {file_registry("viewshed_value")}
      [] t = count_visible_task -> {file_registry("viewshed_value")}
      [] t = visual_quality_task -> {file_registry("viewshed_quality")}

BodyOutputs(t) ==
    CASE t = reprojected_aoi_task -> {file_registry("aoi_reprojected")}
      [] t = reprojected_viewpoints_task ->
            {file_registry("structures_reprojected")}
      [] t = clipped_viewpoints_task -> {file_registry("structures_clipped")}
      [] t = clipped_dem_task -> {file_registry("clipped_dem")}
      [] IsViewshed(t) ->
            {auxilliary_filepath(t[2]), visibility_filepath(t[2])}
      [] IsValuation(t) -> {viewshed_valuation_path(t[2])}
      [] t = viewshed_value_task -> {file_registry("viewshed_value")}
      [] t = count_visible_task -> {file_registry("n_visible_structures")}
      [] t = visual_quality_task -> {file_registry("viewshed_quality")}

\* dependent_task_list of every add_task call.
DependentTaskListNoViewshed(t) ==
    CASE t = reprojected_aoi_task -> {}
      [] t = reprojected_viewpoints_task -> {}
      [] t = clipped_viewpoints_task ->
            {reprojected_aoi_task, reprojected_viewpoints_task}
      [] t = clipped_dem_task -> {reprojected_aoi_task}
      [] IsViewshed(t) -> {clipped_dem_task, clipped_viewpoints_task}
      [] IsValuation(t) -> {clipped_dem_task}
      [] t = viewshed_value_task -> valuation_tasks
      [] t = count_visible_task -> viewshed_tasks
      [] t = visual_quality_task -> {viewshed_value_task}

DependentTaskList(t) ==
    CASE t = reprojected_aoi_task -> {}
      [] t = reprojected_viewpoints_task -> {}
      [] t = clipped_viewpoints_task ->
            {reprojected_aoi_task, reprojected_viewpoints_task}
      [] t = clipped_dem_task -> {reprojected_aoi_task}
      [] IsViewshed(t) -> {clipped_dem_task, clipped_viewpoints_task}
      [] IsValuation(t) -> {viewshed_task(t[2])}
      [] t = viewshed_value_task -> valuation_tasks
      [] t = count_visible_task -> viewshed_tasks
      [] t = visual_quality_task -> {viewshed_value_task}

\* The weights list of line 240, in index order.
weights == [i \in 1..Len(viewpoints) |-> viewpoints[i].weight]

\* func, args and kwargs of every add_task call (the coefficients, the
\* refraction and the radius of args are the same in every run).
TaskArgs(t) ==
    CASE t = reprojected_aoi_task ->
            <<"reproject_vector", "aoi_path", file_registry("aoi_reprojected")>>
      [] t = reprojected_viewpoints_task ->
            <<"reproject_vector", "structure_path",
              file_registry("structures_reprojected")>>
      [] t = clipped_viewpoints_task ->
            <<"_clip_vector", file_registry("structures_reprojected"),
              file_registry("aoi_reprojected"),
              file_registry("structures_clipped")>>
      [] t = clipped_dem_task ->
            <<"_clip_and_mask_dem", "dem_path",
              file_registry("aoi_reprojected"), file_registry("clipped_dem"),
              "intermediate">>
      [] IsViewshed(t) ->
            <<"viewshed", file_registry("clipped_dem"),
              viewpoints[t[2] + 1].viewpoint, visibility_filepath(t[2]),
              viewpoints[t[2] + 1].max_radius,
              viewpoints[t[2] + 1].viewpoint_height,
              auxilliary_filepath(t[2])>>
      [] IsValuation(t) ->
            <<"_calculate_valuation", visibility_filepath(t[2]),
              viewpoints[t[2] + 1].viewpoint, viewpoints[t[2] + 1].weight,
              ValuationMethod(valuation_function),
              viewshed_valuation_path(t[2])>>
      [] t = viewshed_value_task ->
            <<"_sum_valuation_rasters", file_registry("clipped_dem"),
              [i \in 1..Len(viewpoints) |-> viewshed_valuation_path(i - 1)],
              file_registry("viewshed_value")>>
      [] t = count_visible_task ->
            <<"_count_visible_structures",
              [i \in 1..Len(viewpoints) |-> visibility_filepath(i - 1)],
              weights, file_registry("clipped_dem"),
              file_registry("n_visible_structures")>>
      [] t = visual_quality_task ->
            <<"_calculate_visual_quality", file_registry("viewshed_value"),
              "intermediate", file_registry("viewshed_quality")>>

(***************************************************************************)
(* The task graph scheduler (design document, section 4.1).                *)
(*   pending  added, not yet dispatched                                    *)
(*   running  its body is executing                                        *)
(*   done     its body returned                                            *)
(*   skipped  not executed: targets exist and the token matches            *)
(*   raised   its body raised an error                                     *)
(*   failed   not executed: a predecessor raised or failed                 *)
(***************************************************************************)
Added == DOMAIN status
Running == {t \in Added : status[t] = "running"}
Completed(t) == t \in Added /\ status[t] \in {"done", "skipped"}
Failed(t) == t \in Added /\ status[t] \in {"raised", "failed"}
Terminal(t) == Completed(t) \/ Failed(t)
Executed == {t \in Added : status[t] \in {"running", "done", "raised"}}

\* Zero workers: one task at a time, in the caller's context.
Synchronous == n_workers = 0
Capacity == IF Synchronous THEN 1 ELSE n_workers

\* With zero workers a call of add_task returns when the task has run.
CallerMayProceed ==
    Synchronous => \A t \in Added : Terminal(t)

\* The completion token: the task's operation and argument fingerprint.
Token(t) == <<work_token_dir, t, TaskArgs(t)>>

UpToDate(t) == TargetPathList(t) \subseteq files /\ Token(t) \in tokens

RECURSIVE Dependents(_, _)
\* The added tasks that depend, directly or transitively, on a task of `on'.
Dependents(on, seen) ==
    LET more == {u \in Added \ (on \cup seen) :
                    DependentTaskList(u) \cap (on \cup seen) # {}}
    IN  IF more = {} THEN seen ELSE Dependents(on, seen \cup more)

add_task(t) ==
    status' = [u \in Added \cup {t} |->
                IF u # t THEN status[u]
                ELSE IF \E d \in DependentTaskList(t) : Failed(d)
                     THEN "failed" ELSE "pending"]

Ready(t) ==
    /\ t \in Added
    /\ status[t] = "pending"
    /\ \A d \in DependentTaskList(t) : Completed(d)
    /\ Cardinality(Running) < Capacity

\* A ready task whose targets exist and whose token matches is not executed.
TaskSkip(t) ==
    /\ Ready(t)
    /\ UpToDate(t)
    /\ status' = [status EXCEPT ![t] = "skipped"]
    /\ UNCHANGED <<inputs, rastervars, workspace, pc, viewpoints, feature_index>>

\* A ready task that is not up to date starts executing.
TaskStart(t) ==
    /\ Ready(t)
    /\ ~ UpToDate(t)
    /\ status' = [status EXCEPT ![t] = "running"]
    /\ UNCHANGED <<inputs, rastervars, workspace, pc, viewpoints, feature_index>>

\* The body returns: the targets exist and the token is written.
TaskFinish(t) ==
    /\ t \in Running
    /\ t = clipped_viewpoints_task => ~ ClipVectorRaises(StructuresReprojected)
    /\ status' = [status EXCEPT ![t] = "done"]
    /\ files' = files \cup BodyOutputs(t)
    /\ created' = created \cup BodyOutputs(t)
    /\ tokens' = tokens \cup {Token(t)}
    /\ UNCHANGED <<inputs, rastervars, pc, viewpoints, feature_index, last, baseline>>

\* The body raises: the task and the dependents added so far are failed, no
\* token is written.  _clip_vector has created its output (line 347) when
\* it raises at line 357; any other error is raised before an output exists.
TaskRaise(t) ==
    /\ t \in Running
    /\ LET written ==
            IF t = clipped_viewpoints_task
                /\ ClipVectorRaises(StructuresReprojected)
            THEN BodyOutputs(t) ELSE {}
       IN  /\ files' = files \cup written
           /\ created' = created \cup written
    /\ status' = [u \in Added |->
                    IF u = t THEN "raised"
                    ELSE IF u \in Dependents({t}, {}) THEN "failed"
                    ELSE status[u]]
    /\ UNCHANGED <<inputs, rastervars, pc, viewpoints, feature_index, tokens, last,
                   baseline>>

(***************************************************************************)
(* execute(), step by step.                                                *)
(***************************************************************************)
\* Lines 81-128: the valuation method is decided before the directories,
\* the file registry and the graph are made.
Configure ==
    /\ pc = "start"
    /\ pc' = IF ValuationMethod(valuation_function) = "ValueError"
             THEN "raised" ELSE "add_reprojected_aoi_task"
    /\ UNCHANGED <<inputs, rastervars, workspace, viewpoints, feature_index, status>>

\* One add_task call of lines 130-164.
AddClippingTask(at, t, next) ==
    /\ pc = at
    /\ CallerMayProceed
    /\ add_task(t)
    /\ pc' = next
    /\ UNCHANGED <<inputs, rastervars, workspace, viewpoints, feature_index>>

AddReprojectedAoiTask ==
    AddClippingTask("add_reprojected_aoi_task", reprojected_aoi_task,
                    "add_reprojected_viewpoints_task")

AddReprojectedViewpointsTask ==
    AddClippingTask("add_reprojected_viewpoints_task",
                    reprojected_viewpoints_task, "add_clipped_viewpoints_task")

AddClippedViewpointsTask ==
    AddClippingTask("add_clipped_viewpoints_task", clipped_viewpoints_task,
                    "add_clipped_dem_task")

AddClippedDemTask ==
    AddClippingTask("add_clipped_dem_task", clipped_dem_task,
                    "join_clipped_dem_task")

\* task.join(): returns when the task has completed, raises when it failed.
JoinTask(at, t, next) ==
    /\ pc = at
    /\ Terminal(t)
    /\ pc' = IF Failed(t) THEN "raised" ELSE next
    /\ UNCHANGED <<inputs, rastervars, workspace, viewpoints, feature_index, status>>

SkipJoinClippedDemTask ==
    /\ pc = "join_clipped_dem_task"
    /\ pc' = "join_clipped_viewpoints_task"
    /\ UNCHANGED <<inputs, rastervars, workspace, viewpoints, feature_index, status>>

\* Line 169.
JoinClippedDemTask ==
    JoinTask("join_clipped_dem_task", clipped_dem_task,
             "join_clipped_viewpoints_task")

\* Line 170.
SkipJoinClippedViewpointsTask ==
    /\ pc = "join_clipped_viewpoints_task"
    /\ pc' = "extract_viewpoints"
    /\ UNCHANGED <<inputs, rastervars, workspace, viewpoints, feature_index, status>>

JoinClippedViewpointsTask ==
    JoinTask("join_clipped_viewpoints_task", clipped_viewpoints_task,
             "extract_viewpoints")

AfterLoop(index, tuples) ==
    IF index < Len(tuples) THEN "add_viewshed_task"
    ELSE "add_viewshed_value_task"

\* Lines 174-239: the viewpoints of the reprojected structures, sorted.
ExtractViewpoints ==
    /\ pc = "extract_viewpoints"
    /\ viewpoints' = SortedByLocation(ViewpointTuples(StructuresReprojected))
    /\ feature_index' = 0
    /\ pc' = AfterLoop(0, viewpoints')
    /\ UNCHANGED <<inputs, rastervars, workspace, status>>

\* Lines 246-260.
AddViewshedTask ==
    /\ pc = "add_viewshed_task"
    /\ CallerMayProceed
    /\ add_task(viewshed_task(feature_index))
    /\ pc' = "add_valuation_task"
    /\ UNCHANGED <<inputs, rastervars, workspace, viewpoints, feature_index>>

\* Lines 265-279.
AddValuationTask ==
    /\ pc = "add_valuation_task"
    /\ CallerMayProceed
    /\ add_task(valuation_task(feature_index))
    /\ feature_index' = feature_index + 1
    /\ pc' = AfterLoop(feature_index + 1, viewpoints)
    /\ UNCHANGED <<inputs, rastervars, workspace, viewpoints>>

\* Lines 281-288.
AddViewshedValueTask ==
    /\ pc = "add_viewshed_value_task"
    /\ CallerMayProceed
    /\ add_task(viewshed_value_task)
    /\ pc' = "add_count_visible_task"
    /\ UNCHANGED <<inputs, rastervars, workspace, viewpoints, feature_index>>

\* Lines 291-299.
AddCountVisibleTask ==
    /\ pc = "add_count_visible_task"
    /\ CallerMayProceed
    /\ add_task(count_visible_task)
    /\ pc' = "add_visual_quality_task"
    /\ UNCHANGED <<inputs, rastervars, workspace, viewpoints, feature_index>>

\* Lines 302-310.
AddVisualQualityTask ==
    /\ pc = "add_visual_quality_task"
    /\ CallerMayProceed
    /\ add_task(visual_quality_task)
    /\ pc' = "graph_join"
    /\ UNCHANGED <<inputs, rastervars, workspace, viewpoints, feature_index>>

\* Lines 312-313: graph.join() returns when every task has completed and
\* raises when one has failed.
ReturnWithoutJoin ==
    /\ pc = "graph_join"
    /\ pc' = "returned"
    /\ UNCHANGED <<inputs, rastervars, workspace, viewpoints, feature_index, status>>

GraphJoin ==
    /\ pc = "graph_join"
    /\ \A t \in Added : Terminal(t)
    /\ pc' = IF \E t \in Added : Failed(t) THEN "raised" ELSE "returned"
    /\ UNCHANGED <<inputs, rastervars, workspace, viewpoints, feature_index, status>>

\* execute() is called again with the same arguments, in the same workspace;
\* the graph of the last call is gone.
Rerun ==
    /\ pc \in {"returned", "raised"}
    /\ Running = {}
    /\ last' = pc
    /\ pc' = "start"
    /\ status' = <<>>
    /\ viewpoints' = <<>>
    /\ feature_index' = 0
    /\ created' = {}
    /\ UNCHANGED <<inputs, rastervars, files, tokens, baseline>>

Init ==
    /\ args_n_workers \in NWorkersArgs
    /\ valuation_function \in ValuationFunctions
    /\ structures \in RowInputs
    /\ pc = "start"
    /\ viewpoints = <<>>
    /\ feature_index = 0
    /\ status = <<>>
    /\ files = {}
    /\ created = {}
    /\ tokens = {}
    /\ last = "none"
    /\ baseline = "none"
    /\ NoRasters

Next ==
    \/ Configure
    \/ AddReprojectedAoiTask
    \/ AddReprojectedViewpointsTask
    \/ AddClippedViewpointsTask
    \/ AddClippedDemTask
    \/ JoinClippedDemTask
    \/ JoinClippedViewpointsTask
    \/ ExtractViewpoints
    \/ AddViewshedTask
    \/ AddValuationTask
    \/ AddViewshedValueTask
    \/ AddCountVisibleTask
    \/ AddVisualQualityTask
    \/ GraphJoin
    \/ Rerun
    \/ \E t \in Added : TaskSkip(t)
    \/ \E t \in Added : TaskStart(t)
    \/ \E t \in Added : TaskFinish(t)
    \/ \E t \in Added : TaskRaise(t)

Spec == Init /\ [][Next]_vars

(***************************************************************************)
(* Properties of the task graph of execute().                              *)
(***************************************************************************)
SecondPhase ==
    {"extract_viewpoints", "add_viewshed_task", "add_valuation_task",
     "add_viewshed_value_task", "add_count_visible_task",
     "add_visual_quality_task", "graph_join", "returned"}

SecondPhaseTasks ==
    {t \in Added : IsViewshed(t) \/ IsValuation(t)}
    \cup (Added \cap {viewshed_value_task, count_visible_task,
                      visual_quality_task})

\* C1: a task body has begun only if every task of its dependency list has
\* completed; the valuation of viewpoint i has begun only if the visibility
\* of viewpoint i has completed, and the visual quality only if the
\* valuation sum has completed.
C1_DependenciesFirst ==
    /\ \A t \in Executed : \A d \in DependentTaskList(t) : Completed(d)
    /\ \A t \in Executed :
        IsValuation(t) => Completed(viewshed_task(t[2]))
    /\ visual_quality_task \in Executed => Completed(viewshed_value_task)

\* Two workers: a valuation runs beside the visibility of another viewpoint.
C1_Witness ==
    /\ Completed(viewshed_task(0))
    /\ valuation_task(0) \in Running
    /\ viewshed_task(1) \in Running

\* C2 (state part): when a task body has raised, every task added that
\* depends on it, directly or transitively, is failed, has not executed, and
\* none of its target files has been created in this call.
C2_DependentsFailed ==
    \A t \in Added :
        status[t] = "raised" =>
            \A u \in Dependents({t}, {}) :
                /\ status[u] = "failed"
                /\ u \notin Executed
                /\ TargetPathList(u) \cap created = {}

\* C2 (step part): within one call a raised task stays raised (it is not
\* retried) and a failed task stays failed (it is never executed).
C2_NoRetry ==
    \A t \in Added :
        (Failed(t) /\ t \in DOMAIN status') => status'[t] = status[t]

\* C2: a raising task fails its transitive dependents, which never execute
\* and whose targets are never created; the raising task is not retried.
C2_FailurePropagates == [] C2_DependentsFailed /\ [][C2_NoRetry]_vars

\* A valuation raised: the sum and the visual quality are failed, while the
\* weighted visibility count, which does not depend on it, has run.
C2_Witness ==
    /\ valuation_task(0) \in Added
    /\ status[valuation_task(0)] = "raised"
    /\ visual_quality_task \in Added
    /\ status[viewshed_value_task] = "failed"
    /\ status[visual_quality_task] = "failed"
    /\ status[count_visible_task] = "done"

\* C3: execute() has not returned normally when a task it added has failed,
\* and it has passed the joins of lines 169-170 only with both clipping
\* tasks completed.
C3_FailureSurfacesAtJoin ==
    /\ pc = "returned" => \A t \in Added : ~ Failed(t)
    /\ pc \in SecondPhase =>
        /\ Completed(clipped_dem_task)
        /\ Completed(clipped_viewpoints_task)

\* The error of the visual quality body is raised by graph.join().
C3_Witness ==
    /\ pc = "raised"
    /\ visual_quality_task \in Added
    /\ status[visual_quality_task] = "raised"

\* C4: a task whose targets exist and whose token matches is not executing,
\* and a call that follows a call which returned executes no task body.
C4_Memoized ==
    /\ \A t \in Running : ~ UpToDate(t)
    /\ last = "returned" => Executed = {}

\* The second call returned with every task of two viewpoints skipped.
C4_Witness ==
    /\ last = "returned"
    /\ pc = "returned"
    /\ Len(viewpoints) = 2
    /\ \A t \in Added : status[t] = "skipped"

\* C6: with args['n_workers'] missing, empty, None or 0, at most one task
\* body is running, and the bodies that have begun are closed under the
\* dependency lists with every dependency completed (they have run in a
\* topological order).
C6_ZeroWorkersSynchronous ==
    args_n_workers \in {<<"missing">>, <<"str", "">>, <<"None">>, <<"int", 0>>}
        => /\ Cardinality(Running) <= 1
           /\ \A t \in Executed :
                \A d \in DependentTaskList(t) : Completed(d)

\* n_workers is missing and the second valuation is the body running.
C6_Witness ==
    /\ args_n_workers = <<"missing">>
    /\ valuation_task(1) \in Running

\* C7: the target path lists of the tasks added are pairwise disjoint.
C7_DisjointTargets ==
    \A t \in Added : \A u \in Added :
        t # u => TargetPathList(t) \cap TargetPathList(u) = {}

\* The whole graph of two viewpoints has been added.
C7_Witness ==
    /\ {viewshed_task(0), valuation_task(0), viewshed_task(1),
        valuation_task(1), viewshed_value_task, count_visible_task,
        visual_quality_task} \subseteq Added
    /\ Cardinality(Added) = 11

\* The valuation functions validate() accepts (lines 881-885).
RecognizedFunction(f) ==
    \/ StartsWith(f, "linear")
    \/ StartsWith(f, "logarithmic")
    \/ StartsWith(f, "exponential")

\* C8: with an unrecognized valuation function execute() is at its start or
\* has raised, no task has been added and no file has been created.
C8_ConfigurationErrorFirst ==
    ~ RecognizedFunction(valuation_function) =>
        /\ pc \in {"start", "raised"}
        /\ Added = {}
        /\ created = {}

C8_Witness ==
    /\ ~ RecognizedFunction(valuation_function)
    /\ pc = "raised"
    /\ Added = {}
    /\ files = {}

\* C9: when no structure lies in the area of interest, the clip task never
\* completes, execute() does not get past its join on the clip task, and no
\* visibility, valuation, aggregation or visual quality task is added.
C9_EmptyClipStopsExecute ==
    Clip(StructuresReprojected) = <<>> =>
        /\ ~ Completed(clipped_viewpoints_task)
        /\ pc \notin SecondPhase
        /\ SecondPhaseTasks = {}

\* Structures exist but none in the area of interest: the clip task raised,
\* the DEM was clipped, and execute() raised at the join of line 170.
C9_Witness ==
    /\ structures # <<>>
    /\ Clip(StructuresReprojected) = <<>>
    /\ Completed(clipped_dem_task)
    /\ Failed(clipped_viewpoints_task)
    /\ status[clipped_viewpoints_task] = "raised"
    /\ pc = "raised"
    /\ SecondPhaseTasks = {}

(***************************************************************************)
(* One call of execute() in an empty workspace, fairly scheduled: the      *)
(* caller's thread and the workers of the graph each keep running while    *)
(* they have something to do.  Nothing is up to date in an empty           *)
(* workspace, so no task is skipped.                                       *)
(***************************************************************************)
ExecuteStep ==
    \/ Configure
    \/ AddReprojectedAoiTask
    \/ AddReprojectedViewpointsTask
    \/ AddClippedViewpointsTask
    \/ AddClippedDemTask
    \/ JoinClippedDemTask
    \/ JoinClippedViewpointsTask
    \/ ExtractViewpoints
    \/ AddViewshedTask
    \/ AddValuationTask
    \/ AddViewshedValueTask
    \/ AddCountVisibleTask
    \/ AddVisualQualityTask
    \/ GraphJoin

WorkerStep ==
    \/ \E t \in Added : TaskStart(t)
    \/ \E t \in Added : TaskFinish(t)
    \/ \E t \in Added : TaskRaise(t)

OneCall == ExecuteStep \/ WorkerStep

LiveSpec ==
    Init /\ [][OneCall]_vars /\ WF_vars(ExecuteStep) /\ WF_vars(WorkerStep)

TasksOfExecute ==
    {reprojected_aoi_task, reprojected_viewpoints_task,
     clipped_viewpoints_task, clipped_dem_task, viewshed_value_task,
     count_visible_task, visual_quality_task}
    \cup viewshed_tasks \cup valuation_tasks

\* C5 (safety part): execute() has returned only with every task it adds
\* added and completed.
C5_ReturnedAfterAllTasks ==
    pc = "returned" =>
        /\ Added = TasksOfExecute
        /\ \A t \in Added : Completed(t)

\* C5 (liveness part): unless a task body raises (or the configuration is
\* rejected), execute() eventually returns.
C5_EventuallyReturns ==
    <>(\/ pc = "returned"
       \/ \E t \in Added : status[t] = "raised"
       \/ ~ RecognizedFunction(valuation_function))

\* C5: under fair scheduling, if no task body raises, every task completes,
\* every join returns and execute() returns, and not before every task has
\* completed.
C5_FairCallCompletes == [] C5_ReturnedAfterAllTasks /\ C5_EventuallyReturns

\* Two workers, two viewpoints, no error: execute() returned.
C5_Witness ==
    /\ pc = "returned"
    /\ n_workers = 2
    /\ Len(viewpoints) = 2
    /\ \A t \in Added : status[t] = "done"

(***************************************************************************)
(* The tasks execute() plans after the joins of lines 169-170, for a       *)
(* structures vector and for the same structures in another feature order  *)
(* (a repacked shapefile, lines 228-231).                                  *)
(***************************************************************************)
WeightFields == {Absent} \cup {<<w>> : w \in 1..MaxWeight}

WeightedFeatures ==
    {Feature(<<x, 0>>, w, Absent, Absent) :
        x \in 0..MaxCoord, w \in WeightFields}

WeightedInputs ==
    UNION {[1..n -> WeightedFeatures] : n \in 1..MaxFeatures}

FeatureOrders(seq) ==
    {[i \in 1..Len(seq) |-> seq[p[i]]] :
        p \in {q \in [1..Len(seq) -> 1..Len(seq)] :
                \A i \in 1..Len(seq) : \E j \in 1..Len(seq) : q[j] = i}}

ClippingTasks ==
    {reprojected_aoi_task, reprojected_viewpoints_task,
     clipped_viewpoints_task, clipped_dem_task}

\* What add_task was given for every task of the graph.
PlannedTasks ==
    [t \in Added |->
        <<TaskArgs(t), TargetPathList(t), DependentTaskList(t)>>]

\* Both clipping tasks are joined; the workers are busy elsewhere.
OrderInit ==
    /\ args_n_workers = <<"int", 1>>
    /\ valuation_function \in {f \in ValuationFunctions : RecognizedFunction(f)}
    /\ structures \in {s \in WeightedInputs : ~ ClipVectorRaises(s)}
    /\ pc = "extract_viewpoints"
    /\ viewpoints = <<>>
    /\ feature_index = 0
    /\ status = [t \in ClippingTasks |-> "done"]
    /\ files = UNION {BodyOutputs(t) : t \in ClippingTasks}
    /\ created = files
    /\ tokens = {Token(t) : t \in ClippingTasks}
    /\ last = "none"
    /\ baseline = <<>>
    /\ NoRasters

\* The structures vector is repacked: the same features in any order.
Repack ==
    /\ pc = "graph_join"
    /\ baseline = <<>>
    /\ baseline' = PlannedTasks
    /\ structures' \in FeatureOrders(structures)
    /\ pc' = "extract_viewpoints"
    /\ viewpoints' = <<>>
    /\ feature_index' = 0
    /\ status' = [t \in ClippingTasks |-> "done"]
    /\ UNCHANGED <<args_n_workers, valuation_function, files, created,
                   tokens, last, rastervars>>

OrderNext ==
    \/ ExtractViewpoints
    \/ AddViewshedTask
    \/ AddValuationTask
    \/ AddViewshedValueTask
    \/ AddCountVisibleTask
    \/ AddVisualQualityTask
    \/ Repack

OrderSpec == OrderInit /\ [][OrderNext]_vars

\* C10: the same viewpoints in another feature order give the same tasks:
\* the same names, arguments (the weights list among them), target paths
\* and dependency lists.
C10_StableTaskSet ==
    (pc = "graph_join" /\ baseline # <<>>) => PlannedTasks = baseline

(***************************************************************************)
(* The viewpoint filter of execute(), lines 183-198, over structures       *)
(* anywhere around the DEM: outside its bounding box, over a valid pixel,  *)
(* over a nodata pixel, and on the edges of the bounding box.              *)
(***************************************************************************)
\* raster_size of the DEM: (columns, rows) of its bounding box.
DemRasterSize ==
    <<(DemBoundingBox.maxx - DemBoundingBox.minx) \div DemGeoTransform[2],
      (DemBoundingBox.miny - DemBoundingBox.maxy) \div DemGeoTransform[6]>>

\* The pixels a band of the DEM holds, as (column, row).
DemPixels == (0 .. DemRasterSize[1] - 1) \X (0 .. DemRasterSize[2] - 1)

\* Lines 575-576: band.ReadAsArray of a 1x1 window that is not inside the
\* raster reads nothing.
WindowOutsideRaster(viewpoint) == PixelUnder(viewpoint) \notin DemPixels

FilterFeatures ==
    {Feature(<<x, y>>, Absent, Absent, Absent) :
        x \in 0 .. MaxCoord + 1,
        y \in DemBoundingBox.miny .. DemBoundingBox.maxy}

FilterInputs ==
    {s \in UNION {[1..n -> FilterFeatures] : n \in 1..MaxFeatures} :
        ~ ClipVectorRaises(s)}

\* Both clipping tasks are joined.
FilterInit ==
    /\ args_n_workers = <<"int", 1>>
    /\ valuation_function \in {f \in ValuationFunctions : RecognizedFunction(f)}
    /\ structures \in FilterInputs
    /\ pc = "extract_viewpoints"
    /\ viewpoints = <<>>
    /\ feature_index = 0
    /\ status = [t \in ClippingTasks |-> "done"]
    /\ files = UNION {BodyOutputs(t) : t \in ClippingTasks}
    /\ created = files
    /\ tokens = {Token(t) : t \in ClippingTasks}
    /\ last = "none"
    /\ baseline = <<>>
    /\ NoRasters

\* Lines 575-576 when the GDAL bindings raise errors instead of returning
\* None: the read outside the raster ends execute() with that error.
ReadAsArrayRaises ==
    /\ pc = "extract_viewpoints"
    /\ \E i \in 1..Len(StructuresReprojected) :
            /\ _viewpoint_within_raster(StructuresReprojected[i].loc)
            /\ WindowOutsideRaster(StructuresReprojected[i].loc)
    /\ pc' = "raised"
    /\ UNCHANGED <<inputs, rastervars, workspace, viewpoints, feature_index, status>>

FilterNext ==
    \/ ExtractViewpoints
    \/ ReadAsArrayRaises
    \/ AddViewshedTask
    \/ AddValuationTask
    \/ AddViewshedValueTask
    \/ AddCountVisibleTask
    \/ AddVisualQualityTask

FilterSpec == FilterInit /\ [][FilterNext]_vars

\* The features of the structures vector that lie inside the DEM's extent
\* and over a valid pixel of it.
OverValidTerrain(loc) ==
    /\ _viewpoint_within_raster(loc)
    /\ PixelUnder(loc) \in DemPixels \ DemNodataPixels

\* C11: every viewpoint with a visibility task lies inside the terrain
\* extent and over a valid (not nodata) terrain pixel; a viewpoint outside
\* the extent or over nodata is skipped without an error, and the other
\* viewpoints are still processed.
C11_ViewshedsOverValidTerrain ==
    /\ \A t \in Added :
            IsViewshed(t) => OverValidTerrain(viewpoints[t[2] + 1].viewpoint)
    /\ pc # "raised"
    /\ pc = "graph_join" =>
            \A i \in 1..Len(structures) :
                OverValidTerrain(structures[i].loc) =>
                    \E t \in Added :
                        /\ IsViewshed(t)
                        /\ viewpoints[t[2] + 1].viewpoint = structures[i].loc

(***************************************************************************)
(* The rasters of the workspace.  A band is a function from the pixels     *)
(* (column, row) of the raster to numbers.  Numbers are integers: a        *)
(* distance is rounded down to whole metres, numpy.log and numpy.exp are   *)
(* rounded down to integers, and one value stands for the floats that are  *)
(* not finite.                                                             *)
(***************************************************************************)
MaxCols == 2
MaxRows == 2
MaxCoef == 1
MaxRadius == 1

\* Lines 25-26.
_VALUATION_NODATA == -99999
_BYTE_NODATA == 255

\* Line 490: the nodata value of a visibility raster (a byte raster).
vis_nodata == 255

\* inf, -inf and nan of float64.
NonFinite == 1000000000

Pixels(size) == (0 .. size[1] - 1) \X (0 .. size[2] - 1)

RasterSizes == (1 .. MaxCols) \X (1 .. MaxRows)

Max(x, y) == IF x >= y THEN x ELSE y
Min(x, y) == IF x <= y THEN x ELSE y

\* Lines 614-617: the bounding box of the clipped DEM.
intersection_bbox ==
    [minx |-> Max(AoiBoundingBox.minx, DemBoundingBox.minx),
     miny |-> Max(AoiBoundingBox.miny, DemBoundingBox.miny),
     maxx |-> Min(AoiBoundingBox.maxx, DemBoundingBox.maxx),
     maxy |-> Min(AoiBoundingBox.maxy, DemBoundingBox.maxy)]

\* Line 477: a visibility raster has the geotransform of the clipped DEM,
\* the DEM's pixel size from the corner of the intersection (lines 611-622).
vis_gt ==
    <<intersection_bbox.minx, DemGeoTransform[2], 0,
      intersection_bbox.maxy, 0, DemGeoTransform[6]>>

\* Line 485, in a projection whose linear unit is the metre.
pixel_size_in_m == Fabs(DemGeoTransform[2])

\* Lines 478-479.
ViewpointPixel(viewpoint) ==
    <<TruncDiv(viewpoint[1] - vis_gt[1], vis_gt[2]),
      TruncDiv(viewpoint[2] - vis_gt[4], vis_gt[6])>>

\* The coordinates of the corner of a pixel, the inverse of lines 478-479.
PixelCorner(p) ==
    <<vis_gt[1] + p[1] * vis_gt[2], vis_gt[4] + p[2] * vis_gt[6]>>

RECURSIVE Pow(_, _)
Pow(base, n) == IF n = 0 THEN 1 ELSE base * Pow(base, n - 1)

Isqrt(n) == CHOOSE r \in 0 .. n : r * r <= n /\ n < (r + 1) * (r + 1)

\* numpy.exp, with e taken as 2.7, rounded down.
Exp(z) ==
    IF z >= 0 THEN Pow(27, z) \div Pow(10, z)
    ELSE Pow(10, -z) \div Pow(27, -z)

\* numpy.log, rounded down; the logarithm of 0 is -inf.
Log(x) ==
    IF x <= 0 THEN NonFinite
    ELSE CHOOSE n \in 0 .. x : Exp(n) <= x /\ x < Exp(n + 1)

\* Arithmetic on a value that is not finite gives one that is not finite.
Float(operand, result) == IF operand = NonFinite THEN NonFinite ELSE result

\* Lines 505-507: hypot of the pixel offsets times the pixel size, squared.
DistanceSquared(p, viewpoint) ==
    LET dx == Fabs(p[1] - ViewpointPixel(viewpoint)[1])
        dy == Fabs(p[2] - ViewpointPixel(viewpoint)[2])
    IN  (dx * dx + dy * dy) * pixel_size_in_m * pixel_size_in_m

dist_in_m(p, viewpoint) == Isqrt(DistanceSquared(p, viewpoint))

\* Line 509: dist_in_m <= max_valuation_radius, compared exactly.
valid_distances(p, viewpoint, max_valuation_radius) ==
    /\ max_valuation_radius >= 0
    /\ DistanceSquared(p, viewpoint)
            <= max_valuation_radius * max_valuation_radius

\* Lines 438, 450 and 463: valid_pixels of each method.
valid_pixels_without_distance(distance, visibility) == visibility > 0

valid_pixels_linear(distance, visibility) == visibility > 0

valid_pixels_logarithmic(distance, visibility) ==
    visibility > 0 /\ distance > 0

valid_pixels_exponential(distance, visibility) == visibility > 0

\* Lines 437-445.
_valuation_linear_unweighted(a, b, weight, distance, visibility) ==
    IF valid_pixels_linear(distance, visibility)
    THEN (a + b * distance) * visibility
    ELSE 0

_valuation_linear(a, b, weight, distance, visibility) ==
    IF valid_pixels_linear(distance, visibility)
    THEN (a + b * distance) * (weight * visibility)
    ELSE 0

\* Lines 449-458.
_valuation_logarithmic(a, b, weight, distance, visibility) ==
    IF valid_pixels_logarithmic(distance, visibility)
    THEN Float(Log(distance),
               (a + b * Log(distance)) * (weight * visibility))
    ELSE 0

\* Lines 462-470.
_valuation_exponential(a, b, weight, distance, visibility) ==
    IF valid_pixels_exponential(distance, visibility)
    THEN (a * Exp(-b * distance)) * (weight * visibility)
    ELSE 0

_valuation_of_every_pixel(method, a, b, weight, distance, visibility) ==
    CASE method = "linear" -> (a + b * distance) * weight
      [] method = "logarithmic" ->
            IF distance > 0 THEN (a + b * Log(distance)) * weight ELSE 0
      [] method = "exponential" -> (a * Exp(-b * distance)) * weight

\* Lines 435-470: _valuation of the method.
_valuation(method, a, b, weight, distance, visibility) ==
    CASE method = "linear" ->
            _valuation_linear(a, b, weight, distance, visibility)
      [] method = "logarithmic" ->
            _valuation_logarithmic(a, b, weight, distance, visibility)
      [] method = "exponential" ->
            _valuation_exponential(a, b, weight, distance, visibility)

\* Lines 492-519: the band written to valuation_raster_path.
_calculate_valuation(visibility, viewpoint, weight, valuation_method, valuation_coefficients, max_valuation_radius) ==
    [p \in DOMAIN visibility |->
        LET nodata == visibility[p] = vis_nodata
            within == valid_distances(p, viewpoint, max_valuation_radius)
        IN  IF within /\ ~ nodata
            THEN _valuation(valuation_method, valuation_coefficients.a,
                            valuation_coefficients.b, weight,
                            dist_in_m(p, viewpoint), visibility[p])
            ELSE IF ~ within /\ ~ nodata THEN 0
            ELSE _VALUATION_NODATA]

(***************************************************************************)
(* _calculate_valuation for one viewpoint: any visibility raster, any      *)
(* viewpoint over it, every method.                                        *)
(***************************************************************************)
RecognizedFunctions ==
    {"linear: a + bx", "logarithmic: a + b ln(x)", "exponential: a * e^(-bx)"}

CoefficientsA == (0 .. MaxCoef) \cup {_VALUATION_NODATA}
CoefficientsB == (-MaxCoef) .. MaxCoef

\* Nothing is scheduled: the task bodies are applied directly.
NoGraph ==
    /\ args_n_workers = <<"int", 0>>
    /\ structures = <<>>
    /\ feature_index = 0
    /\ status = <<>>
    /\ created = {}
    /\ tokens = {}
    /\ last = "none"
    /\ baseline = <<>>

ValuationInit ==
    /\ raster_size \in RasterSizes
    /\ blocksize = raster_size
    /\ viewpoints \in
        {<<[viewpoint |-> PixelCorner(p), max_radius |-> None,
            weight |-> w, viewpoint_height |-> 0]>> :
            p \in Pixels(raster_size), w \in 1 .. MaxWeight}
    /\ rasters \in
        {(visibility_filepath(0) :> band) :
            band \in [Pixels(raster_size) -> {0, 1, vis_nodata}]}
    /\ files = {visibility_filepath(0)}
    /\ valuation_function \in RecognizedFunctions
    /\ valuation_args \in
        [a : CoefficientsA, b : CoefficientsB,
         max_valuation_radius : 0 .. MaxRadius]
    /\ iterators = <<>>
    /\ percentile_values = <<>>
    /\ pc = "calculate_valuation"
    /\ NoGraph

\* The body of calculate_valuation_for_viewshed_0, lines 265-279.
CalculateValuation ==
    /\ pc = "calculate_valuation"
    /\ rasters' =
        rasters @@
        (viewshed_valuation_path(0) :>
            _calculate_valuation(rasters[visibility_filepath(0)],
                                 viewpoints[1].viewpoint,
                                 viewpoints[1].weight,
                                 ValuationMethod(valuation_function),
                                 valuation_args,
                                 valuation_args.max_valuation_radius))
    /\ files' = files \cup {viewshed_valuation_path(0)}
    /\ pc' = "valuation_calculated"
    /\ UNCHANGED <<inputs, viewpoints, feature_index, status, created,
                   tokens, last, baseline, raster_size, blocksize,
                   valuation_args, iterators, percentile_values>>

ValuationSpec == ValuationInit /\ [][CalculateValuation]_vars

visibility_raster == rasters[visibility_filepath(0)]
valuation_raster == rasters[viewshed_valuation_path(0)]
valuation_method == ValuationMethod(valuation_function)
ValuationWritten == pc = "valuation_calculated"

\* C12: with every method and for all coefficients, weights and distances,
\* a pixel whose visibility is 0 has valuation exactly 0.
C12_InvisibleIsZero ==
    ValuationWritten =>
        \A p \in Pixels(raster_size) :
            visibility_raster[p] = 0 => valuation_raster[p] = 0

\* An exponential valuation with an invisible and a visible pixel inside
\* the radius.
C12_Witness ==
    /\ ValuationWritten
    /\ valuation_method = "exponential"
    /\ valuation_args.a = 1
    /\ \E p, q \in Pixels(raster_size) :
            /\ visibility_raster[p] = 0
            /\ valid_distances(p, viewpoints[1].viewpoint,
                               valuation_args.max_valuation_radius)
            /\ valuation_raster[p] = 0
            /\ visibility_raster[q] = 1
            /\ valuation_raster[q] # 0

\* C13: a pixel beyond the maximum valuation radius whose visibility is not
\* nodata is exactly 0, even when visible, and a pixel of the valuation
\* raster is nodata if and only if the visibility raster is nodata there.
C13_NodataOnlyFromVisibility ==
    ValuationWritten =>
        \A p \in Pixels(raster_size) :
            /\ (/\ ~ valid_distances(p, viewpoints[1].viewpoint,
                                     valuation_args.max_valuation_radius)
                /\ visibility_raster[p] # vis_nodata)
                    => valuation_raster[p] = 0
            /\ valuation_raster[p] = _VALUATION_NODATA
                    <=> visibility_raster[p] = vis_nodata

\* C14: with the logarithmic method a visible pixel at distance 0 has
\* valuation 0, and no pixel holds a value that is not finite: the
\* logarithm is not taken at distance 0.
C14_LogarithmAtViewpoint ==
    (ValuationWritten /\ valuation_method = "logarithmic") =>
        \A p \in Pixels(raster_size) :
            /\ valuation_raster[p] # NonFinite
            /\ (/\ dist_in_m(p, viewpoints[1].viewpoint) = 0
                /\ visibility_raster[p] = 1) => valuation_raster[p] = 0

\* The viewpoint's own pixel is visible, and so is a pixel next to it.
C14_Witness ==
    /\ ValuationWritten
    /\ valuation_method = "logarithmic"
    /\ valuation_args.a = 1
    /\ valuation_args.max_valuation_radius = 1
    /\ \E p, q \in Pixels(raster_size) :
            /\ p = ViewpointPixel(viewpoints[1].viewpoint)
            /\ visibility_raster[p] = 1
            /\ valuation_raster[p] = 0
            /\ dist_in_m(q, viewpoints[1].viewpoint) = 1
            /\ visibility_raster[q] = 1
            /\ valuation_raster[q] # 0

\* C15: with the linear method a visible pixel within the radius has
\* (a + b * distance) * weight and a pixel that is not visible has 0; with
\* a = 1, b = 0 and weight 2 every visible pixel within the radius has 2.
C15_LinearValuation ==
    (ValuationWritten /\ valuation_method = "linear") =>
        \A p \in Pixels(raster_size) :
            (/\ valid_distances(p, viewpoints[1].viewpoint,
                                valuation_args.max_valuation_radius)
             /\ visibility_raster[p] # vis_nodata) =>
                /\ visibility_raster[p] = 1 =>
                    valuation_raster[p] =
                        (valuation_args.a + valuation_args.b
                            * dist_in_m(p, viewpoints[1].viewpoint))
                        * viewpoints[1].weight
                /\ visibility_raster[p] = 0 => valuation_raster[p] = 0
                /\ (/\ valuation_args.a = 1
                    /\ valuation_args.b = 0
                    /\ viewpoints[1].weight = 2
                    /\ visibility_raster[p] = 1) => valuation_raster[p] = 2

\* a = 1, b = 0, weight 2: the viewpoint's pixel and one next to it are
\* visible and hold 2.
C15_Witness ==
    /\ ValuationWritten
    /\ valuation_method = "linear"
    /\ valuation_args.a = 1
    /\ valuation_args.b = 0
    /\ viewpoints[1].weight = 2
    /\ \E p, q \in Pixels(raster_size) :
            /\ dist_in_m(p, viewpoints[1].viewpoint) = 0
            /\ dist_in_m(q, viewpoints[1].viewpoint) = 1
            /\ valuation_raster[p] = 2
            /\ valuation_raster[q] = 2

(***************************************************************************)
(* The two aggregators, _sum_valuation_rasters (lines 363-395) and         *)
(* _count_visible_structures (lines 651-715).  Both work pixel by pixel,   *)
(* so the rasters are one row of pixels.                                   *)
(***************************************************************************)
\* Line 669.
target_nodata == -1

\* Lines 379 and 674: the nodata value of the clipped DEM.
dem_nodata == -1

\* The elevation of a valid pixel of the DEM.
Elevation == 100

\* Line 382 and line 697.
valid_dem_pixels(dem) == [p \in DOMAIN dem |-> dem[p] # dem_nodata]

valid_pixels_of_the_dem(valuation_matrix, valid) ==
    [p \in DOMAIN valid |-> valid[p]]

\* Lines 388-389.
valid_pixels(valuation_matrix, valid) ==
    [p \in DOMAIN valid |->
        valuation_matrix[p] # _VALUATION_NODATA /\ valid[p]]

\* Lines 387-390: the loop over the valuation rasters.
RECURSIVE SumLoop(_, _, _)
SumLoop(raster_sum, valid, valuation_rasters) ==
    IF valuation_rasters = <<>> THEN raster_sum
    ELSE LET valuation_matrix == Head(valuation_rasters)
             mask == valid_pixels(valuation_matrix, valid)
         IN  SumLoop([p \in DOMAIN raster_sum |->
                        IF mask[p] THEN raster_sum[p] + valuation_matrix[p]
                        ELSE raster_sum[p]],
                     valid, Tail(valuation_rasters))

\* Lines 381-391.
_sum_rasters(dem, valuation_rasters) ==
    SumLoop([p \in DOMAIN dem |->
                IF valid_dem_pixels(dem)[p] THEN 0 ELSE _VALUATION_NODATA],
            valid_dem_pixels(dem), valuation_rasters)

\* Lines 393-395: raster_calculator over the DEM and the valuation rasters.
_sum_valuation_rasters(dem, valuation_filepaths) ==
    _sum_rasters(rasters[dem],
                 [i \in 1 .. Len(valuation_filepaths) |->
                    rasters[valuation_filepaths[i]]])

visible_mask_of_positive(visibility_matrix, valid_mask) ==
    [p \in DOMAIN valid_mask |-> visibility_matrix[p] > 0 /\ valid_mask[p]]

\* Line 702.
visible_mask(visibility_matrix, valid_mask) ==
    [p \in DOMAIN valid_mask |-> visibility_matrix[p] = 1 /\ valid_mask[p]]

\* Lines 699-704: the loop over izip(vis_raster_bands, weights), which
\* stops with the shorter of the two.
RECURSIVE CountLoop(_, _, _, _)
CountLoop(visibility_sum, valid_mask, vis_raster_bands, weight_list) ==
    IF vis_raster_bands = <<>> \/ weight_list = <<>> THEN visibility_sum
    ELSE LET visibility_matrix == Head(vis_raster_bands)
             weight == Head(weight_list)
             mask == visible_mask(visibility_matrix, valid_mask)
         IN  CountLoop([p \in DOMAIN visibility_sum |->
                            IF mask[p]
                            THEN visibility_sum[p]
                                    + visibility_matrix[p] * weight
                            ELSE visibility_sum[p]],
                       valid_mask, Tail(vis_raster_bands), Tail(weight_list))

\* Lines 685-708: the band written to target_path.
_count_visible_structures(visibility_rasters, weight_list, clipped_dem) ==
    LET dem_matrix == rasters[clipped_dem]
        valid_mask == valid_dem_pixels(dem_matrix)
    IN  CountLoop([p \in DOMAIN dem_matrix |->
                        IF valid_mask[p] THEN 0 ELSE target_nodata],
                  valid_mask,
                  [i \in 1 .. Len(visibility_rasters) |->
                        rasters[visibility_rasters[i]]],
                  weight_list)

\* The lists execute() passes at lines 281-299.
valuation_filepaths ==
    [i \in 1 .. Len(viewpoints) |-> viewshed_valuation_path(i - 1)]
viewshed_files ==
    [i \in 1 .. Len(viewpoints) |-> visibility_filepath(i - 1)]

Rows == {<<cols, 1>> : cols \in 1 .. MaxCols}

DemBands(size) == [Pixels(size) -> {dem_nodata, Elevation}]

\* The viewpoints whose rasters are aggregated, with their weights.
WeightedViewpoints(n, ws) ==
    [i \in 1 .. n |->
        [viewpoint |-> PixelCorner(<<0, 0>>), max_radius |-> None,
         weight |-> ws[i], viewpoint_height |-> 0]]

\* The clipped DEM and one band per viewpoint at the paths of a pattern.
Workspace(dem, pattern, bands) ==
    [path \in {file_registry("clipped_dem")}
                \cup {Format(file_registry(pattern), i - 1) :
                        i \in 1 .. Len(bands)} |->
        IF path = file_registry("clipped_dem") THEN dem
        ELSE bands[path[3] + 1]]

AggregateInit ==
    /\ raster_size \in Rows
    /\ blocksize = raster_size
    /\ \E n \in 0 .. MaxFeatures :
        \/ /\ pc = "sum_valuation_rasters"
           /\ viewpoints = WeightedViewpoints(n, [i \in 1 .. n |-> 1])
           /\ rasters \in
                {Workspace(dem, "value_pattern", bands) :
                    dem \in DemBands(raster_size),
                    bands \in [1 .. n ->
                        [Pixels(raster_size) ->
                            {_VALUATION_NODATA, 0, MaxWeight}]]}
        \/ /\ pc = "count_visible_structures"
           /\ viewpoints \in
                {WeightedViewpoints(n, ws) :
                    ws \in [1 .. n -> (-1) .. MaxWeight + 1]}
           /\ rasters \in
                {Workspace(dem, "visibility_pattern", bands) :
                    dem \in DemBands(raster_size),
                    bands \in [1 .. n ->
                        [Pixels(raster_size) -> {0, 1, vis_nodata}]]}
    /\ files = DOMAIN rasters
    /\ valuation_function \in {"linear: a + bx"}
    /\ valuation_args = [a |-> 1, b |-> 0, max_valuation_radius |-> MaxRadius]
    /\ iterators = <<>>
    /\ percentile_values = <<>>
    /\ NoGraph

\* The body of add_up_valuation_rasters, lines 281-288.
SumValuationRasters ==
    /\ pc = "sum_valuation_rasters"
    /\ rasters' =
        rasters @@
        (file_registry("viewshed_value") :>
            _sum_valuation_rasters(file_registry("clipped_dem"),
                                   valuation_filepaths))
    /\ files' = files \cup {file_registry("viewshed_value")}
    /\ pc' = "valuation_summed"
    /\ UNCHANGED <<inputs, viewpoints, feature_index, status, created,
                   tokens, last, baseline, raster_size, blocksize,
                   valuation_args, iterators, percentile_values>>

\* The body of sum_visibility_for_all_structures, lines 291-299.
CountVisibleStructures ==
    /\ pc = "count_visible_structures"
    /\ rasters' =
        rasters @@
        (file_registry("n_visible_structures") :>
            _count_visible_structures(viewshed_files, weights,
                                      file_registry("clipped_dem")))
    /\ files' = files \cup {file_registry("n_visible_structures")}
    /\ pc' = "visible_structures_counted"
    /\ UNCHANGED <<inputs, viewpoints, feature_index, status, created,
                   tokens, last, baseline, raster_size, blocksize,
                   valuation_args, iterators, percentile_values>>

AggregateNext == SumValuationRasters \/ CountVisibleStructures

AggregateSpec == AggregateInit /\ [][AggregateNext]_vars

\* The sum of term[i] over the indexes of a set.
RECURSIVE SumOver(_, _)
SumOver(indexes, term) ==
    IF indexes = {} THEN 0
    ELSE LET i == CHOOSE j \in indexes : TRUE
         IN  term[i] + SumOver(indexes \ {i}, term)

clipped_dem_raster == rasters[file_registry("clipped_dem")]

\* C16: in the weighted-visibility output a valid terrain pixel holds the
\* sum of weight_i over exactly the viewpoints whose visibility raster
\* holds 1 there (0 and nodata add nothing, so it is 0 without viewpoints),
\* and a terrain-nodata pixel holds the output's nodata value.
C16_WeightedVisibility ==
    pc = "visible_structures_counted" =>
        \A p \in Pixels(raster_size) :
            rasters[file_registry("n_visible_structures")][p] =
                IF clipped_dem_raster[p] = dem_nodata THEN target_nodata
                ELSE SumOver({i \in 1 .. Len(viewpoints) :
                                rasters[viewshed_files[i]][p] = 1},
                             weights)

\* Weights 1 and 3, both visible at a valid pixel: 4; next to it a pixel
\* outside the terrain.
C16_Witness ==
    /\ pc = "visible_structures_counted"
    /\ weights = <<1, 3>>
    /\ \E p, q \in Pixels(raster_size) :
            /\ clipped_dem_raster[p] # dem_nodata
            /\ rasters[viewshed_files[1]][p] = 1
            /\ rasters[viewshed_files[2]][p] = 1
            /\ rasters[file_registry("n_visible_structures")][p] = 4
            /\ clipped_dem_raster[q] = dem_nodata
            /\ rasters[file_registry("n_visible_structures")][q]
                    = target_nodata

\* C17: in the valuation sum a terrain-nodata pixel is nodata and a valid
\* terrain pixel holds the sum, from 0, of the per-viewpoint valuations
\* that are not nodata there: a nodata value in one raster neither stops
\* the sum nor makes the output nodata.
C17_ValuationSum ==
    pc = "valuation_summed" =>
        \A p \in Pixels(raster_size) :
            rasters[file_registry("viewshed_value")][p] =
                IF clipped_dem_raster[p] = dem_nodata THEN _VALUATION_NODATA
                ELSE SumOver({i \in 1 .. Len(viewpoints) :
                                rasters[valuation_filepaths[i]][p]
                                    # _VALUATION_NODATA},
                             [i \in 1 .. Len(viewpoints) |->
                                rasters[valuation_filepaths[i]][p]])

\* A valid pixel where the first raster is nodata and the second holds a
\* value, and a valid pixel where every raster is nodata.
C17_Witness ==
    /\ pc = "valuation_summed"
    /\ Len(viewpoints) = 2
    /\ \E p, q \in Pixels(raster_size) :
            /\ clipped_dem_raster[p] # dem_nodata
            /\ rasters[valuation_filepaths[1]][p] = _VALUATION_NODATA
            /\ rasters[valuation_filepaths[2]][p] = MaxWeight
            /\ rasters[file_registry("viewshed_value")][p] = MaxWeight
            /\ clipped_dem_raster[q] # dem_nodata
            /\ rasters[valuation_filepaths[1]][q] = _VALUATION_NODATA
            /\ rasters[valuation_filepaths[2]][q] = _VALUATION_NODATA
            /\ rasters[file_registry("viewshed_value")][q] = 0

(***************************************************************************)
(* _calculate_visual_quality, lines 718-830: the sorted runs of the        *)
(* blocks, their merge and the percentile breaks, then the bins of every   *)
(* pixel.  iterblocks belongs to pygeoprocessing and follows the design    *)
(* document, section 4.2: blocks of a fixed size that cover the raster     *)
(* once, smaller on the last column and the last row.                      *)
(***************************************************************************)
BlockCount(n, b) == (n + b - 1) \div b

iterblocks(size, block) ==
    LET nx == BlockCount(size[1], block[1])
        ny == BlockCount(size[2], block[2])
    IN  [k \in 1 .. nx * ny |->
            LET xoff == ((k - 1) % nx) * block[1]
                yoff == ((k - 1) \div nx) * block[2]
            IN  [xoff |-> xoff, yoff |-> yoff,
                 win_xsize |-> Min(block[1], size[1] - xoff),
                 win_ysize |-> Min(block[2], size[2] - yoff)]]

\* The values of a block, row by row.
Block(band, block_info) ==
    [k \in 1 .. block_info.win_xsize * block_info.win_ysize |->
        band[<<block_info.xoff + ((k - 1) % block_info.win_xsize),
               block_info.yoff + ((k - 1) \div block_info.win_xsize)>>]]

\* Lines 739-740: the nodata value of the source raster, the valuation sum.
raster_nodata == _VALUATION_NODATA

\* Line 771: block[(block != raster_nodata) & (block != 0)].
valid_values(block) ==
    SelectSeq(block, LAMBDA v : v # raster_nodata /\ v # 0)

RECURSIVE Insert(_, _)
Insert(sorted, v) ==
    IF sorted = <<>> THEN <<v>>
    ELSE IF v < Head(sorted) THEN <<v>> \o sorted
    ELSE <<Head(sorted)>> \o Insert(Tail(sorted), v)

\* Line 778: valid_pixels.sort().
RECURSIVE Sort(_)
Sort(values) ==
    IF values = <<>> THEN <<>>
    ELSE Insert(Sort(Tail(values)), Head(values))

\* Lines 770-786: one sorted run for every block that has valid pixels.
RECURSIVE SortedRuns(_, _)
SortedRuns(band, blocks) ==
    IF blocks = <<>> THEN <<>>
    ELSE LET valid == valid_values(Block(band, Head(blocks)))
         IN  (IF valid = <<>> THEN <<>> ELSE <<Sort(valid)>>)
                \o SortedRuns(band, Tail(blocks))

RECURSIVE TotalSize(_)
TotalSize(runs) ==
    IF runs = <<>> THEN 0 ELSE Len(Head(runs)) + TotalSize(Tail(runs))

\* Line 785, after the loop.
n_elements == TotalSize(iterators)

\* heapq.merge(*iterators): the least head of the runs first, the earlier
\* run on a tie.
RECURSIVE heapq_merge(_)
heapq_merge(runs) ==
    LET live == {i \in 1 .. Len(runs) : runs[i] # <<>>}
    IN  IF live = {} THEN <<>>
        ELSE LET i == CHOOSE j \in live :
                        \A k \in live :
                            \/ Head(runs[j]) < Head(runs[k])
                            \/ Head(runs[j]) = Head(runs[k]) /\ j <= k
             IN  <<Head(runs[i])>>
                    \o heapq_merge([runs EXCEPT ![i] = Tail(runs[i])])

rank_ordinals_from_the_first_quarter(n) == [k \in 1 .. 4 |-> (k * n + 3) \div 4]

\* Lines 788-789: math.ceil(n * n_elements) for n in 0, 1/4, 2/4, 3/4.
rank_ordinals(n) == [k \in 1 .. 4 |-> ((k - 1) * n + 3) \div 4]

\* Lines 791-802: one comparison of current_index for every merged value.
RECURSIVE PercentileLoop(_, _, _, _)
PercentileLoop(values, current_index, ordinals, found) ==
    IF values = <<>> THEN found
    ELSE IF current_index = Head(ordinals)
         THEN IF Tail(ordinals) = <<>>
              THEN Append(found, Head(values))
              ELSE PercentileLoop(Tail(values), current_index + 1,
                                  Tail(ordinals),
                                  Append(found, Head(values)))
         ELSE PercentileLoop(Tail(values), current_index + 1, ordinals,
                             found)

digitize_right(x, bins) ==
    Cardinality({i \in 1 .. Len(bins) : bins[i] < x})

\* numpy.digitize(x, bins) for increasing bins: bins[i-1] <= x < bins[i].
digitize(x, bins) ==
    Cardinality({i \in 1 .. Len(bins) : bins[i] <= x})

\* A number stored in an int8 array, and an int8 written to a byte band.
Int8(v) == ((v + 128) % 256) - 128
Byte(v) == v % 256

\* Lines 816-826, and the write of line 828-830 to a byte raster.
_map_percentiles(valuation_matrix, percentile_bins) ==
    [p \in DOMAIN valuation_matrix |->
        LET nonzero == valuation_matrix[p] # 0
            nodata == valuation_matrix[p] = raster_nodata
        IN  Byte(IF ~ nodata /\ nonzero
                 THEN Int8(digitize(valuation_matrix[p], percentile_bins))
                 ELSE IF ~ nonzero /\ ~ nodata THEN Int8(0)
                 ELSE Int8(_BYTE_NODATA))]

SourceValues == {raster_nodata} \cup ((-1) .. MaxWeight)

source_raster == rasters[file_registry("viewshed_value")]

QualityInit ==
    /\ raster_size \in RasterSizes
    /\ blocksize \in (1 .. raster_size[1]) \X (1 .. raster_size[2])
    /\ rasters \in
        {(file_registry("viewshed_value") :> band) :
            band \in [Pixels(raster_size) -> SourceValues]}
    /\ files = DOMAIN rasters
    /\ viewpoints = <<>>
    /\ valuation_function \in {"linear: a + bx"}
    /\ valuation_args = [a |-> 1, b |-> 0, max_valuation_radius |-> MaxRadius]
    /\ iterators = <<>>
    /\ percentile_values = <<>>
    /\ pc = "calculate_visual_quality"
    /\ NoGraph

\* Lines 768-786.
SaveSortedRuns ==
    /\ pc = "calculate_visual_quality"
    /\ iterators' = SortedRuns(source_raster,
                               iterblocks(raster_size, blocksize))
    /\ pc' = "merge_sorted_runs"
    /\ UNCHANGED <<inputs, viewpoints, feature_index, status, files, created,
                   tokens, last, baseline, raster_size, blocksize, rasters,
                   valuation_args, percentile_values>>

\* Lines 788-810.
MergeSortedRuns ==
    /\ pc = "merge_sorted_runs"
    /\ percentile_values' =
        PercentileLoop(heapq_merge(iterators), 0, rank_ordinals(n_elements),
                       <<>>)
    /\ iterators' = <<>>
    /\ pc' = "map_percentiles"
    /\ UNCHANGED <<inputs, viewpoints, feature_index, status, files, created,
                   tokens, last, baseline, raster_size, blocksize, rasters,
                   valuation_args>>

\* Lines 812-830.
MapPercentiles ==
    /\ pc = "map_percentiles"
    /\ rasters' =
        rasters @@
        (file_registry("viewshed_quality") :>
            _map_percentiles(source_raster, percentile_values))
    /\ files' = files \cup {file_registry("viewshed_quality")}
    /\ pc' = "visual_quality_calculated"
    /\ UNCHANGED <<inputs, viewpoints, feature_index, status, created,
                   tokens, last, baseline, raster_size, blocksize,
                   valuation_args, iterators, percentile_values>>

\* Line 824 when no break was found: percentile_bins is an empty array.
\* The module runs on Python 2 (itertools.izip, line 699), so numpy is 1.16
\* or older: numpy.digitize of the releases before 1.16 raises ValueError
\* ("bins must have non-zero length") whatever x holds, and 1.16 returns
\* zeros.  Both are outcomes of line 824; MapPercentiles is the second.
DigitizeRaises ==
    /\ pc = "map_percentiles"
    /\ percentile_values = <<>>
    /\ pc' = "raised"
    /\ UNCHANGED <<inputs, viewpoints, feature_index, status, files, created,
                   tokens, last, baseline, raster_size, blocksize, rasters,
                   valuation_args, iterators, percentile_values>>

QualityNext ==
    SaveSortedRuns \/ MergeSortedRuns \/ MapPercentiles \/ DigitizeRaises

QualitySpec == QualityInit /\ [][QualityNext]_vars

\* The pixels that count for the percentiles, sorted all at once.
Population ==
    Sort(valid_values(Block(source_raster,
                            [xoff |-> 0, yoff |-> 0,
                             win_xsize |-> raster_size[1],
                             win_ysize |-> raster_size[2]])))

\* The element of 0-based rank ceil(q * N) of the sorted population, for
\* every quantile q of 0, 0.25, 0.50, 0.75 whose rank the population has.
NearestRank(sorted) ==
    LET ranks == rank_ordinals(Len(sorted))
        has == {k \in 1 .. 4 : ranks[k] < Len(sorted)}
    IN  [k \in 1 .. Cardinality(has) |-> sorted[ranks[k] + 1]]

BreaksFound == pc \in {"map_percentiles", "visual_quality_calculated"}

\* C18: for every raster and every block size, the breaks found by the
\* sorted runs and their merge are the elements of rank ceil(q * N) of the
\* population sorted as a whole, for q in 0, 0.25, 0.50, 0.75.
C18_BreaksAreNearestRanks ==
    BreaksFound => percentile_values = NearestRank(Population)

\* C19: a population that is not empty gives one break for every quantile,
\* four of them, in non-decreasing order, so that the classes of the
\* output are nodata, 0 and 1..4.
C19_FourBreaks ==
    /\ (BreaksFound /\ Population # <<>>) =>
        /\ Len(percentile_values) = 4
        /\ \A i, j \in 1 .. Len(percentile_values) :
                i <= j => percentile_values[i] <= percentile_values[j]
    /\ pc = "visual_quality_calculated" =>
        \A p \in Pixels(raster_size) :
            rasters[file_registry("viewshed_quality")][p]
                \in {_BYTE_NODATA} \cup (0 .. 4)

\* C20: a source pixel that is nodata is written as the output's nodata
\* value, a pixel that is exactly 0 gets 0, and every other pixel gets the
\* number of breaks that are less than or equal to its value.
C20_Classification ==
    pc = "visual_quality_calculated" =>
        \A p \in Pixels(raster_size) :
            rasters[file_registry("viewshed_quality")][p] =
                IF source_raster[p] = raster_nodata THEN _BYTE_NODATA
                ELSE IF source_raster[p] = 0 THEN 0
                ELSE Cardinality({i \in 1 .. Len(percentile_values) :
                                    percentile_values[i] <= source_raster[p]})

\* Four pixels in more than one block: nodata, zero, and two values of
\* which the larger is on the second break.
C20_Witness ==
    /\ pc = "visual_quality_calculated"
    /\ blocksize # raster_size
    /\ \E p, q, r, s \in Pixels(raster_size) :
            /\ source_raster[p] = raster_nodata
            /\ rasters[file_registry("viewshed_quality")][p] = _BYTE_NODATA
            /\ source_raster[q] = 0
            /\ rasters[file_registry("viewshed_quality")][q] = 0
            /\ source_raster[r] = 1
            /\ rasters[file_registry("viewshed_quality")][r] = 1
            /\ source_raster[s] = MaxWeight
            /\ rasters[file_registry("viewshed_quality")][s] = 2


(***************************************************************************)
(* _calculate_visual_quality run once more on the same source raster,      *)
(* lines 812-830, and the classes of the output taken as values.           *)
(***************************************************************************)
raster_calculator_over_base(target_path, band) ==
    [f \in DOMAIN rasters |->
        IF f = file_registry("viewshed_value") THEN band ELSE rasters[f]]

\* Lines 828-830: raster_calculator writes the band to target_path; the
\* other files stay as they are.
raster_calculator(target_path, band) ==
    [f \in DOMAIN rasters \cup {target_path} |->
        IF f = target_path THEN band ELSE rasters[f]]

\* Lines 812-830 a second time, with the breaks of the first time.
Reclassify ==
    /\ pc = "visual_quality_calculated"
    /\ rasters' =
        raster_calculator(file_registry("viewshed_quality"),
                          _map_percentiles(source_raster, percentile_values))
    /\ pc' = "reclassified"
    /\ UNCHANGED <<inputs, viewpoints, feature_index, status, files, created,
                   tokens, last, baseline, raster_size, blocksize,
                   valuation_args, iterators, percentile_values>>

ReclassifyNext == QualityNext \/ Reclassify

ReclassifySpec == QualityInit /\ [][ReclassifyNext]_vars

visual_quality_raster == rasters[file_registry("viewshed_quality")]

C30_ZeroClassOnlyForZero ==
    pc = "visual_quality_calculated" =>
        \A p \in Pixels(raster_size) :
            source_raster[p] # raster_nodata =>
                /\ visual_quality_raster[p] # _BYTE_NODATA
                /\ visual_quality_raster[p] = 0 <=> source_raster[p] = 0
                /\ source_raster[p] # 0 => visual_quality_raster[p] \in 1 .. 4

\* A negative pixel that is the least of a population of four has class 1
\* beside a pixel of 0 with class 0.
C30_Witness ==
    /\ pc = "visual_quality_calculated"
    /\ Len(Population) = 4
    /\ \E p, q, r \in Pixels(raster_size) :
            /\ source_raster[p] = -1
            /\ visual_quality_raster[p] = 1
            /\ source_raster[q] = MaxWeight
            /\ visual_quality_raster[q] = 4
            /\ blocksize # raster_size


weighted_visibility_raster == rasters[file_registry("n_visible_structures")]

\* C28: in the weighted-visibility output a pixel holds the nodata value
\* -1 exactly when the terrain pixel is nodata, whatever the WEIGHT values
\* (line 220 takes them as they are, negative ones too) and whatever is
\* visible: no valid terrain pixel has a weighted sum of -1.
C28_NodataOnlyOutsideTerrain ==
    pc = "visible_structures_counted" =>
        \A p \in Pixels(raster_size) :
            weighted_visibility_raster[p] = target_nodata
                <=> clipped_dem_raster[p] = dem_nodata


\* C29: every viewpoint that _viewpoint_within_raster accepts has, by the
\* index computation of lines 572-573 (and 478-479), a column in
\* 0..width-1 and a row in 0..height-1 of the raster, the viewpoints on the
\* maximum-x edge and on the minimum-y edge of the bounding box included.
C29_AcceptedViewpointsHavePixels ==
    pc # "extract_viewpoints" =>
        \A i \in 1 .. Len(StructuresReprojected) :
            _viewpoint_within_raster(StructuresReprojected[i].loc) =>
                PixelUnder(StructuresReprojected[i].loc) \in DemPixels


(***************************************************************************)
(* The clipped and masked DEM of _clip_and_mask_dem, lines 605-644, which  *)
(* the visibility tasks read (line 248), for an area of interest that is   *)
(* the rectangle of its bounding box.                                      *)
(***************************************************************************)
\* Lines 619-621: warp_raster to target_bb = intersection_bbox.
ClippedDemRasterSize ==
    <<(intersection_bbox.maxx - intersection_bbox.minx) \div vis_gt[2],
      (intersection_bbox.miny - intersection_bbox.maxy) \div vis_gt[6]>>

ClippedDemPixels == Pixels(ClippedDemRasterSize)

\* Lines 632-644: a pixel is valid where the DEM is and the mask is 1.
ClippedDemNodataPixels ==
    {p \in ClippedDemPixels :
        \/ PixelUnder(PixelCorner(p)) \in DemNodataPixels
        \/ ~ InAoi(PixelCorner(p))}

\* The locations of the features of structures_clipped (line 352).
ClippedLocations ==
    {Clip(StructuresReprojected)[i].loc :
        i \in 1 .. Len(Clip(StructuresReprojected))}

\* C26: every viewpoint with a visibility task is a feature of the clipped
\* structures vector and lies within the extent, and over a valid pixel, of
\* the clipped and masked DEM that the visibility task reads.
C26_ViewshedsInsideClippedDem ==
    \A t \in Added :
        IsViewshed(t) =>
            LET loc == viewpoints[t[2] + 1].viewpoint
            IN  /\ loc \in ClippedLocations
                /\ intersection_bbox.minx <= loc[1]
                /\ loc[1] <= intersection_bbox.maxx
                /\ intersection_bbox.miny <= loc[2]
                /\ loc[2] <= intersection_bbox.maxy
                /\ ViewpointPixel(loc)
                        \in ClippedDemPixels \ ClippedDemNodataPixels


(***************************************************************************)
(* The files the task bodies and execute() read, lines 130-310, in calls   *)
(* with no, one and two viewpoints, with and without workers.              *)
(***************************************************************************)
\* The paths among the arguments of a task that its body reads.
BodyInputs(t) ==
    CASE t = reprojected_aoi_task -> {}
      [] t = reprojected_viewpoints_task -> {}
      [] t = clipped_viewpoints_task ->
            {file_registry("structures_reprojected"),
             file_registry("aoi_reprojected")}
      [] t = clipped_dem_task -> {file_registry("aoi_reprojected")}
      [] IsViewshed(t) -> {file_registry("clipped_dem")}
      [] IsValuation(t) -> {visibility_filepath(t[2])}
      [] t = viewshed_value_task ->
            {file_registry("clipped_dem")}
            \cup {viewshed_valuation_path(i) : i \in FeatureIndexes}
      [] t = count_visible_task ->
            {file_registry("clipped_dem")}
            \cup {visibility_filepath(i) : i \in FeatureIndexes}
      [] t = visual_quality_task -> {file_registry("viewshed_value")}

\* The tasks of execute() that have a file among their targets.
Producers(f) == {u \in TasksOfExecute : f \in TargetPathList(u)}

RECURSIVE Predecessors(_, _)
\* The tasks a task of `of' depends on, directly or transitively.
Predecessors(of, seen) ==
    LET more == UNION {DependentTaskList(u) : u \in of \cup seen} \ seen
    IN  IF more = {} THEN seen ELSE Predecessors(of, seen \cup more)

\* Lines 169-170: the tasks execute() has joined on, and what they needed.
JoinedBeforeTheLoop ==
    Predecessors({clipped_dem_task, clipped_viewpoints_task},
                 {clipped_dem_task, clipped_viewpoints_task})

\* A structure over the nodata pixel of the DEM, one inside the area of
\* interest and one outside it.
RaceFeatures ==
    {Feature(loc, Absent, Absent, Absent) :
        loc \in {<<2, 1>>, <<2, 0>>, <<1, 0>>}}

RaceInputs ==
    {s \in UNION {[1 .. n -> RaceFeatures] : n \in 1 .. MaxFeatures} :
        ~ ClipVectorRaises(s)}

RaceInit ==
    /\ args_n_workers \in {<<"int", 0>>, <<"int", MaxWorkers>>}
    /\ valuation_function \in {"linear: a + bx"}
    /\ structures \in RaceInputs
    /\ pc = "start"
    /\ viewpoints = <<>>
    /\ feature_index = 0
    /\ status = <<>>
    /\ files = {}
    /\ created = {}
    /\ tokens = {}
    /\ last = "none"
    /\ baseline = "none"
    /\ NoRasters

RaceSpec == RaceInit /\ [][Next]_vars

\* C27: whenever a task body reads a file that is a target of a task, the
\* producing task has completed and the file exists, because the producer
\* is a transitive predecessor of the reader or was joined on before the
\* reader was added; so it is when execute() reads the reprojected
\* structures, for every number of workers, and with no viewpoint at all.
C27_NoReadBeforeWrite ==
    /\ \A t \in Added : \A f \in BodyInputs(t) : \A u \in Producers(f) :
            \/ u \in Predecessors({t}, {})
            \/ t \notin ClippingTasks /\ u \in JoinedBeforeTheLoop
    /\ \A t \in Running : \A f \in BodyInputs(t) :
            /\ f \in files
            /\ Producers(f) # {}
            /\ \A u \in Producers(f) : Completed(u)
    /\ pc = "extract_viewpoints" =>
            /\ file_registry("structures_reprojected") \in files
            /\ Completed(reprojected_viewpoints_task)

\* No viewpoint and two workers: the valuation sum and the weighted
\* visibility, which depend on no task, read the clipped DEM side by side.
C27_Witness ==
    /\ Len(viewpoints) = 0
    /\ n_workers = MaxWorkers
    /\ {viewshed_value_task, count_visible_task} \subseteq Running
    /\ Completed(clipped_dem_task)


(***************************************************************************)
(* The block loops of _calculate_valuation (lines 492-518) and of          *)
(* _count_visible_structures (lines 685-709) block by block: every block   *)
(* of iterblocks is read, computed and written with WriteArray at the      *)
(* offsets of its block_info.  The rasters are large enough for a last     *)
(* block that is smaller than the others.                                  *)
(***************************************************************************)
MaxTile == 3

TileSizes ==
    {s \in (1 .. MaxTile) \X (1 .. MaxTile) : s[1] * s[2] <= 2 * MaxTile}

\* The indexes of an array of the shape of a block, as (column, row).
BlockShape(block_info) ==
    (0 .. block_info.win_xsize - 1) \X (0 .. block_info.win_ysize - 1)

\* The array iterblocks yields with a block_info, and
\* band.ReadAsArray(**block_info) of line 700.
ReadAsArray(band, block_info) ==
    [q \in BlockShape(block_info) |->
        band[<<block_info.xoff + q[1], block_info.yoff + q[2]>>]]

WriteArrayAtTheOrigin(band, array, xoff, yoff) ==
    [p \in DOMAIN band |-> IF p \in DOMAIN array THEN array[p] ELSE band[p]]

\* Lines 516-518 and 706-708: band.WriteArray(array, xoff=..., yoff=...).
WriteArray(band, array, xoff, yoff) ==
    [p \in DOMAIN band |->
        IF <<p[1] - xoff, p[2] - yoff>> \in DOMAIN array
        THEN array[<<p[1] - xoff, p[2] - yoff>>]
        ELSE band[p]]

\* Lines 493-514: the array of one block; the distances are taken from the
\* block's offsets (x_coord and y_coord, lines 496-503).
ValuationBlock(block_info, vis_block, viewpoint, weight, method, coefficients, max_valuation_radius) ==
    [q \in DOMAIN vis_block |->
        LET p == <<block_info.xoff + q[1], block_info.yoff + q[2]>>
            nodata == vis_block[q] = vis_nodata
            within == valid_distances(p, viewpoint, max_valuation_radius)
        IN  IF within /\ ~ nodata
            THEN _valuation(method, coefficients.a, coefficients.b, weight,
                            dist_in_m(p, viewpoint), vis_block[q])
            ELSE IF ~ within /\ ~ nodata THEN 0
            ELSE _VALUATION_NODATA]

\* Lines 492-518: the loop over iterblocks(visibility_path).
RECURSIVE ValuationLoop(_, _, _, _, _, _, _, _)
ValuationLoop(valuation_band, blocks, visibility, viewpoint, weight, method, coefficients, max_valuation_radius) ==
    IF blocks = <<>> THEN valuation_band
    ELSE LET block_info == Head(blocks)
             vis_block == ReadAsArray(visibility, block_info)
             visibility_value ==
                ValuationBlock(block_info, vis_block, viewpoint, weight,
                               method, coefficients, max_valuation_radius)
         IN  ValuationLoop(WriteArray(valuation_band, visibility_value,
                                      block_info.xoff, block_info.yoff),
                           Tail(blocks), visibility, viewpoint, weight,
                           method, coefficients, max_valuation_radius)

\* Lines 695-704: the array of one block.
CountBlock(dem_matrix, visibility_blocks, weight_list) ==
    LET valid_mask == valid_dem_pixels(dem_matrix)
    IN  CountLoop([q \in DOMAIN dem_matrix |->
                        IF valid_mask[q] THEN 0 ELSE target_nodata],
                  valid_mask, visibility_blocks, weight_list)

\* Lines 685-708: the loop over iterblocks(clipped_dem).
RECURSIVE CountBlocksLoop(_, _, _, _, _)
CountBlocksLoop(target_band, blocks, dem, vis_raster_bands, weight_list) ==
    IF blocks = <<>> THEN target_band
    ELSE LET block_info == Head(blocks)
             dem_matrix == ReadAsArray(dem, block_info)
             visibility_sum ==
                CountBlock(dem_matrix,
                           [i \in 1 .. Len(vis_raster_bands) |->
                                ReadAsArray(vis_raster_bands[i], block_info)],
                           weight_list)
         IN  CountBlocksLoop(WriteArray(target_band, visibility_sum,
                                        block_info.xoff, block_info.yoff),
                             Tail(blocks), dem, vis_raster_bands, weight_list)

\* Lines 472-474 and 671-672: new_raster_from_base, a band of the size of
\* the base raster that holds the nodata value until it is written.
new_raster_from_base(base, nodata) == [p \in DOMAIN base |-> nodata]

\* How many times WriteArray has written every pixel in a loop over blocks.
RECURSIVE WriteCounts(_, _)
WriteCounts(counts, blocks) ==
    IF blocks = <<>> THEN counts
    ELSE LET block_info == Head(blocks)
             once == WriteArray([p \in DOMAIN counts |-> 0],
                                [q \in BlockShape(block_info) |-> 1],
                                block_info.xoff, block_info.yoff)
         IN  WriteCounts([p \in DOMAIN counts |-> counts[p] + once[p]],
                         Tail(blocks))

TileInit ==
    /\ raster_size \in TileSizes
    /\ blocksize \in (1 .. raster_size[1]) \X (1 .. raster_size[2])
    /\ \/ /\ pc = "calculate_valuation"
          /\ viewpoints \in
                {<<[viewpoint |-> PixelCorner(p), max_radius |-> None,
                    weight |-> MaxWeight, viewpoint_height |-> 0]>> :
                    p \in Pixels(raster_size)}
          /\ rasters \in
                {(visibility_filepath(0) :> band) :
                    band \in [Pixels(raster_size) -> {0, 1, vis_nodata}]}
       \/ /\ pc = "count_visible_structures"
          /\ viewpoints = WeightedViewpoints(1, <<MaxWeight>>)
          /\ rasters \in
                {Workspace(dem, "visibility_pattern", <<band>>) :
                    dem \in DemBands(raster_size),
                    band \in [Pixels(raster_size) -> {0, 1}]}
    /\ files = DOMAIN rasters
    /\ valuation_function \in {"linear: a + bx"}
    /\ valuation_args = [a |-> 1, b |-> 1, max_valuation_radius |-> MaxRadius]
    /\ iterators = <<>>
    /\ percentile_values = <<>>
    /\ NoGraph

\* The body of calculate_valuation_for_viewshed_0, block by block.
CalculateValuationByBlocks ==
    /\ pc = "calculate_valuation"
    /\ rasters' =
        rasters @@
        (viewshed_valuation_path(0) :>
            ValuationLoop(
                new_raster_from_base(rasters[visibility_filepath(0)],
                                     _VALUATION_NODATA),
                iterblocks(raster_size, blocksize),
                rasters[visibility_filepath(0)],
                viewpoints[1].viewpoint, viewpoints[1].weight,
                ValuationMethod(valuation_function), valuation_args,
                valuation_args.max_valuation_radius))
    /\ files' = files \cup {viewshed_valuation_path(0)}
    /\ pc' = "valuation_calculated"
    /\ UNCHANGED <<inputs, viewpoints, feature_index, status, created,
                   tokens, last, baseline, raster_size, blocksize,
                   valuation_args, iterators, percentile_values>>

\* The body of sum_visibility_for_all_structures, block by block.
CountVisibleStructuresByBlocks ==
    /\ pc = "count_visible_structures"
    /\ rasters' =
        rasters @@
        (file_registry("n_visible_structures") :>
            CountBlocksLoop(
                new_raster_from_base(rasters[file_registry("clipped_dem")],
                                     target_nodata),
                iterblocks(raster_size, blocksize),
                rasters[file_registry("clipped_dem")],
                [i \in 1 .. Len(viewshed_files) |->
                    rasters[viewshed_files[i]]],
                weights))
    /\ files' = files \cup {file_registry("n_visible_structures")}
    /\ pc' = "visible_structures_counted"
    /\ UNCHANGED <<inputs, viewpoints, feature_index, status, created,
                   tokens, last, baseline, raster_size, blocksize,
                   valuation_args, iterators, percentile_values>>

TileNext == CalculateValuationByBlocks \/ CountVisibleStructuresByBlocks

TileSpec == TileInit /\ [][TileNext]_vars

\* The pixels of the window of a block.
Window(block_info) ==
    {<<block_info.xoff + q[1], block_info.yoff + q[2]>> :
        q \in BlockShape(block_info)}

TilesWritten == pc \in {"valuation_calculated", "visible_structures_counted"}

\* C24: for every raster size and block size the windows of the blocks lie
\* inside the raster, none larger than the block size, and hold every pixel
\* exactly once; _calculate_valuation and _count_visible_structures write
\* every pixel of their output exactly once, and each pixel holds what is
\* computed from the inputs at that same pixel.
C24_TilesCoverOnce ==
    LET blocks == iterblocks(raster_size, blocksize)
    IN  /\ \A k \in DOMAIN blocks :
            /\ Window(blocks[k]) \subseteq Pixels(raster_size)
            /\ blocks[k].win_xsize \in 1 .. blocksize[1]
            /\ blocks[k].win_ysize \in 1 .. blocksize[2]
        /\ \A p \in Pixels(raster_size) :
            Cardinality({k \in DOMAIN blocks : p \in Window(blocks[k])}) = 1
        /\ TilesWritten =>
            \A p \in Pixels(raster_size) :
                WriteCounts([q \in Pixels(raster_size) |-> 0], blocks)[p] = 1
        /\ pc = "valuation_calculated" =>
            rasters[viewshed_valuation_path(0)] =
                _calculate_valuation(rasters[visibility_filepath(0)],
                                     viewpoints[1].viewpoint,
                                     viewpoints[1].weight,
                                     ValuationMethod(valuation_function),
                                     valuation_args,
                                     valuation_args.max_valuation_radius)
        /\ pc = "visible_structures_counted" =>
            rasters[file_registry("n_visible_structures")] =
                _count_visible_structures(viewshed_files, weights,
                                          file_registry("clipped_dem"))

\* Three columns in blocks of two: the last block of a row is one column
\* wide, and the valuation of its visible pixel, one pixel from the
\* viewpoint, lies in the last column.
C24_Witness ==
    /\ pc = "valuation_calculated"
    /\ raster_size = <<MaxTile, 2>>
    /\ blocksize = <<2, 1>>
    /\ Len(iterblocks(raster_size, blocksize)) = 4
    /\ iterblocks(raster_size, blocksize)[2].win_xsize = 1
    /\ viewpoints[1].viewpoint = PixelCorner(<<2, 0>>)
    /\ rasters[visibility_filepath(0)][<<2, 1>>] = 1
    /\ rasters[viewshed_valuation_path(0)][<<2, 1>>] = 2 * MaxWeight
    /\ rasters[viewshed_valuation_path(0)][<<0, 0>>] = 0


(***************************************************************************)
(* The temporary directories of _calculate_visual_quality (lines 742-810)  *)
(* and of _clip_and_mask_dem (lines 605-648), step by step, with the       *)
(* errors that reading and writing files can raise on the way.             *)
(***************************************************************************)
\* intermediate_dir, the working_dir execute() passes at lines 160 and 305.
working_dir == <<"intermediate">>

\* Lines 745-746 and 605-606: tempfile.mkdtemp(dir=working_dir, prefix=...).
mkdtemp(dir, prefix) == Append(dir, prefix)

visual_quality_temp_dir == mkdtemp(working_dir, "visual_quality")
clip_dem_temp_dir == mkdtemp(working_dir, "clip_dem")

\* Lines 780-781: one file per sorted run, named by the elements before it.
RECURSIVE tmp_filepaths(_, _)
tmp_filepaths(runs, elements_before) ==
    IF runs = <<>> THEN {}
    ELSE {visual_quality_temp_dir
            \o <<"tmp_offset_%s.npy", elements_before>>}
         \cup tmp_filepaths(Tail(runs), elements_before + Len(Head(runs)))

\* Lines 619 and 624: the working files of the clip.
clipped_dem_path == Append(clip_dem_temp_dir, "clipped_dem.tif")
aoi_mask_raster_path == Append(clip_dem_temp_dir, "aoi_mask.tif")

\* The paths in and under a directory.
Tree(dir) == {path \in files : StartsWith(path, dir)}

\* shutil.rmtree(dir), lines 808 and 646.
rmtree(dir) == files \ Tree(dir)

TempDirInit ==
    /\ raster_size \in RasterSizes
    /\ blocksize \in (1 .. raster_size[1]) \X (1 .. raster_size[2])
    /\ rasters \in
        {(file_registry("viewshed_value") :> band) :
            band \in [Pixels(raster_size) -> SourceValues]}
    /\ \/ /\ pc = "makedirs"
          /\ files \in {DOMAIN rasters, DOMAIN rasters \cup {working_dir}}
       \/ /\ pc = "clip_and_mask_dem"
          /\ files = DOMAIN rasters \cup {working_dir}
    /\ viewpoints = <<>>
    /\ valuation_function \in {"linear: a + bx"}
    /\ valuation_args = [a |-> 1, b |-> 0, max_valuation_radius |-> MaxRadius]
    /\ iterators = <<>>
    /\ percentile_values = <<>>
    /\ NoGraph

\* Lines 742-746.
MakeTempDir ==
    /\ pc = "makedirs"
    /\ files' = files \cup {working_dir, visual_quality_temp_dir}
    /\ pc' = "save_sorted_runs"
    /\ UNCHANGED <<inputs, viewpoints, feature_index, status, created,
                   tokens, last, baseline, raster_size, blocksize, rasters,
                   valuation_args, iterators, percentile_values>>

\* Lines 768-786.
SpillSortedRuns ==
    /\ pc = "save_sorted_runs"
    /\ iterators' = SortedRuns(source_raster,
                               iterblocks(raster_size, blocksize))
    /\ files' = files \cup tmp_filepaths(iterators', 0)
    /\ pc' = "merge_spilled_runs"
    /\ UNCHANGED <<inputs, viewpoints, feature_index, status, created,
                   tokens, last, baseline, raster_size, blocksize, rasters,
                   valuation_args, percentile_values>>

\* A read or a write of a file raises (IOError of numpy.save at line 783
\* on a full disk, of numpy.load at line 761, a GDAL error of iterblocks,
\* warp_raster, rasterize or raster_calculator): nothing catches it and the
\* function is left at once.
FileErrorRaises ==
    /\ pc \in {"save_sorted_runs", "merge_spilled_runs", "warp_and_mask"}
    /\ pc' = "raised"
    /\ UNCHANGED <<inputs, viewpoints, feature_index, status, files, created,
                   tokens, last, baseline, raster_size, blocksize, rasters,
                   valuation_args, iterators, percentile_values>>

\* Lines 788-805.
MergeSpilledRuns ==
    /\ pc = "merge_spilled_runs"
    /\ percentile_values' =
        PercentileLoop(heapq_merge(iterators), 0, rank_ordinals(n_elements),
                       <<>>)
    /\ iterators' = <<>>
    /\ pc' = "rmtree"
    /\ UNCHANGED <<inputs, viewpoints, feature_index, status, files, created,
                   tokens, last, baseline, raster_size, blocksize, rasters,
                   valuation_args>>

\* Lines 807-808.
RemoveTempDir ==
    /\ pc = "rmtree"
    /\ files' = rmtree(visual_quality_temp_dir)
    /\ pc' = "map_percentiles"
    /\ UNCHANGED <<inputs, viewpoints, feature_index, status, created,
                   tokens, last, baseline, raster_size, blocksize, rasters,
                   valuation_args, iterators, percentile_values>>

\* Lines 809-810 and 647-648: rmtree raises OSError, which is logged.
RemoveTempDirFails ==
    /\ pc \in {"rmtree", "clip_rmtree"}
    /\ pc' = IF pc = "rmtree" THEN "map_percentiles" ELSE "dem_clipped"
    /\ UNCHANGED <<inputs, viewpoints, feature_index, status, files, created,
                   tokens, last, baseline, raster_size, blocksize, rasters,
                   valuation_args, iterators, percentile_values>>

\* Lines 605-606.
ClipMakeTempDir ==
    /\ pc = "clip_and_mask_dem"
    /\ files' = files \cup {clip_dem_temp_dir}
    /\ pc' = "warp_and_mask"
    /\ UNCHANGED <<inputs, viewpoints, feature_index, status, created,
                   tokens, last, baseline, raster_size, blocksize, rasters,
                   valuation_args, iterators, percentile_values>>

\* Lines 608-644.
WarpAndMask ==
    /\ pc = "warp_and_mask"
    /\ files' = files \cup {clipped_dem_path, aoi_mask_raster_path,
                            file_registry("clipped_dem")}
    /\ pc' = "clip_rmtree"
    /\ UNCHANGED <<inputs, viewpoints, feature_index, status, created,
                   tokens, last, baseline, raster_size, blocksize, rasters,
                   valuation_args, iterators, percentile_values>>

\* Lines 645-646.
ClipRemoveTempDir ==
    /\ pc = "clip_rmtree"
    /\ files' = rmtree(clip_dem_temp_dir)
    /\ pc' = "dem_clipped"
    /\ UNCHANGED <<inputs, viewpoints, feature_index, status, created,
                   tokens, last, baseline, raster_size, blocksize, rasters,
                   valuation_args, iterators, percentile_values>>

TempDirNext ==
    \/ MakeTempDir
    \/ SpillSortedRuns
    \/ FileErrorRaises
    \/ MergeSpilledRuns
    \/ RemoveTempDir
    \/ RemoveTempDirFails
    \/ MapPercentiles
    \/ DigitizeRaises
    \/ ClipMakeTempDir
    \/ WarpAndMask
    \/ ClipRemoveTempDir

TempDirSpec == TempDirInit /\ [][TempDirNext]_vars

\* The function has been left, by a return or by an error.
Left == pc \in {"visual_quality_calculated", "dem_clipped", "raised"}

\* C23: the temporary directory of _calculate_visual_quality and that of
\* _clip_and_mask_dem, with the files in them, are gone when the function
\* has been left, by a return as well as by an error raised between the
\* mkdtemp and the rmtree.
C23_TempDirsRemoved ==
    Left =>
        /\ Tree(visual_quality_temp_dir) = {}
        /\ Tree(clip_dem_temp_dir) = {}

\* C25: when _calculate_visual_quality has returned, the directory passed
\* as working_dir does not exist any more, as the docstring says.
C25_WorkingDirRemoved ==
    pc = "visual_quality_calculated" => working_dir \notin files

====
